---- MODULE Spec2Model ----
(***************************************************************************)
(* Chart composition engine of datachart: scale compatibility, axis        *)
(* assignment, overlay rendering with the global style configuration, and  *)
(* replay of overlay descriptors by the grid compositor.                   *)
(*                                                                         *)
(* Python sequences are 0-based; the sequences of this module are 1-based, *)
(* so chart index i of the code is index i+1 here.  Floating point values  *)
(* are modelled by integers and the threshold by a rational <<num, den>>.  *)
(***************************************************************************)
EXTENDS Integers, Sequences, FiniteSets, TLC

VARIABLES
    cfg,            \* config.config: the global style configuration (a dict)
    theme,          \* config.theme
    chart_configs,  \* argument of _determine_axis_assignment
    auto_threshold, \* threshold argument, a rational <<num, den>>
    assignments,    \* value returned by _determine_axis_assignment
    groups,         \* sorted_groups of the clustering branch (<<>> otherwise)
    warnings,       \* warnings.warn calls issued, in order
    range1,         \* first range handed to _scale_compatible
    range2,         \* second range handed to _scale_compatible
    compat,         \* results of the _scale_compatible calls made so far
    pc,             \* position of the caller
    arg_charts,     \* the charts argument the caller hands to OverlayChart
    arg_bar_mode,   \* the bar_mode argument the caller hands to OverlayChart
    arg_max_cols,   \* the max_cols argument the caller hands to FigureGridLayout
    fig,            \* the figure OverlayChart returned: <<>> or <<figure>>
    last,           \* outcome of the most recent API call
    callers,        \* the concurrent _plot_chart_on_axis calls: position, locals
    before          \* global configuration and theme when those calls started

vars == <<cfg, theme, chart_configs, auto_threshold, assignments, groups,
          warnings, range1, range2, compat, pc, arg_charts, arg_bar_mode,
          arg_max_cols, fig, last, callers, before>>

\* The variables of the callers of the pure functions, and of the API caller.
pureVars == <<chart_configs, auto_threshold, assignments, groups, warnings,
              range1, range2, compat, pc>>
apiVars == <<arg_charts, arg_bar_mode, arg_max_cols, fig, last>>
concVars == <<callers, before>>

----------------------------------------------------------------------------
(* Bounds *)

MaxCharts == 3      \* most charts handed to one call
MaxSpan == 4        \* largest span of a data range
ThresholdDen == 2   \* thresholds are multiples of 1/ThresholdDen
MaxThresholdNum == 6

\* Data ranges (min, max) with min <= max, as _get_data_range returns them.
Ranges == {<<lo, hi>> \in (0..MaxSpan) \X (0..MaxSpan) : lo <= hi}
\* One range per span, for the calls that take several charts.
ChartRanges == {r \in Ranges : r[1] = 0}
Thresholds == {<<k, ThresholdDen>> : k \in {2, 3, 4, MaxThresholdNum}}
YAxis == {"left", "right", "auto"}

----------------------------------------------------------------------------
(* Global configuration *)

THEME_DEFAULT == "default"
THEME_GREYSCALE == "greyscale"

\* Python's None where a string is expected.  An optional number is a
\* sequence: <<>> is None and <<k>> is the number k.
NoneStr == "None"

\* max_cols: int = 4 of FigureGridLayout
DEFAULT_MAX_COLS == 4

\* A local variable: Body applied to the value of v, computed once.
With(v, Body(_)) == CHOOSE out \in {Body(x) : x \in {v}} : TRUE

\* dict.get(key, default)
DictGet(d, key, default) ==
    IF key \in DOMAIN d THEN d[key] ELSE default

\* The keys of the themes that the composition engine reads; widths in
\* tenths.  The greyscale theme spells its keys with dots.
DEFAULT_THEME ==
    [color_general_multiple |-> "Spectral", plot_bar_width |-> 8]

GREYSCALE_THEME ==
    ("color.general.multiple" :> "Grey") @@ ("plot.bar.width" :> 8)

\* Config.get(attr, default)
ConfigGet(c, attr, default) == DictGet(c, attr, default)

\* Config.__getitem__(attr): None when the attribute is not present
ConfigItem(c, attr) == DictGet(c, attr, NoneStr)

\* Config.set_theme(theme): an invalid theme warns and re-applies the
\* active theme, which resets the configuration to that theme's values.
RECURSIVE SetThemeTo(_, _)
SetThemeTo(th, new_theme) ==
    IF new_theme = THEME_DEFAULT
    THEN [cfg |-> DEFAULT_THEME, theme |-> THEME_DEFAULT]
    ELSE IF new_theme = THEME_GREYSCALE
    THEN [cfg |-> GREYSCALE_THEME, theme |-> THEME_GREYSCALE]
    ELSE SetThemeTo(th, th)

\* Config.update_config(config): keys the configuration does not hold are
\* skipped.
UpdateConfigWith(c, upd) ==
    [k \in DOMAIN c |-> IF k \in DOMAIN upd THEN upd[k] ELSE c[k]]

----------------------------------------------------------------------------
(* _scale_compatible *)

\* Python's max(a, b) and min(a, b): the first argument wins a tie.
PyMax(a, b) == IF b > a THEN b ELSE a
PyMin(a, b) == IF b < a THEN b ELSE a

\* ratio < threshold for ratio = num/den and threshold = t[1]/t[2], t[2] > 0
RatioLess(num, den, t) ==
    IF den > 0 THEN num * t[2] < t[1] * den
               ELSE num * t[2] > t[1] * den

ScaleCompatibleNoZeroCheck(r1, r2, threshold) ==
    LET span1 == r1[2] - r1[1]
        span2 == r2[2] - r2[1]
    IN  IF PyMin(span1, span2) = 0 THEN FALSE
        ELSE RatioLess(PyMax(span1, span2), PyMin(span1, span2), threshold)

\* ratio <= threshold
RatioLeq(num, den, t) ==
    IF den > 0 THEN num * t[2] <= t[1] * den
               ELSE num * t[2] >= t[1] * den

ScaleCompatibleNonStrict(r1, r2, threshold) ==
    LET span1 == r1[2] - r1[1]
        span2 == r2[2] - r2[1]
    IN  IF span1 = 0 \/ span2 = 0 THEN TRUE
        ELSE RatioLeq(PyMax(span1, span2), PyMin(span1, span2), threshold)

ScaleCompatibleFirstSpan(r1, r2, threshold) ==
    LET span1 == r1[2] - r1[1]
        span2 == r2[2] - r2[1]
    IN  IF span1 = 0 \/ span2 = 0 THEN TRUE
        ELSE RatioLess(span1, span2, threshold)

ScaleCompatible(r1, r2, threshold) ==
    LET span1 == r1[2] - r1[1]
        span2 == r2[2] - r2[1]
    IN  IF span1 = 0 \/ span2 = 0 THEN TRUE
        ELSE RatioLess(PyMax(span1, span2), PyMin(span1, span2), threshold)

----------------------------------------------------------------------------
(* _cluster_by_scale_compatibility *)

SeqRange(s) == {s[k] : k \in 1..Len(s)}

\* compatible[i][j]: the diagonal is set to True, each pair i < j is tested
\* once as _scale_compatible(range_i, range_j) and stored both ways.
CompatibleMatrix(cc, threshold) ==
    [i \in 1..Len(cc) |-> [j \in 1..Len(cc) |->
        IF i = j THEN TRUE
        ELSE IF i < j
             THEN ScaleCompatible(cc[i].data_range, cc[j].data_range, threshold)
             ELSE ScaleCompatible(cc[j].data_range, cc[i].data_range, threshold)]]

RECURSIVE GrowGroupFirstMember(_, _, _, _)
GrowGroupFirstMember(compatible, assigned, group, j) ==
    IF j > Len(assigned) THEN <<group, assigned>>
    ELSE IF assigned[j] THEN GrowGroupFirstMember(compatible, assigned, group, j + 1)
    ELSE IF compatible[j][group[1]]
         THEN GrowGroupFirstMember(compatible, [assigned EXCEPT ![j] = TRUE],
                                   Append(group, j), j + 1)
         ELSE GrowGroupFirstMember(compatible, assigned, group, j + 1)

\* The inner loop "for j in range(i + 1, n)": j joins the group when it is
\* unassigned and compatible with every chart already in the group.
RECURSIVE GrowGroup(_, _, _, _)
GrowGroup(compatible, assigned, group, j) ==
    IF j > Len(assigned) THEN <<group, assigned>>
    ELSE IF assigned[j] THEN GrowGroup(compatible, assigned, group, j + 1)
    ELSE IF \A k \in 1..Len(group) : compatible[j][group[k]]
         THEN GrowGroup(compatible, [assigned EXCEPT ![j] = TRUE],
                        Append(group, j), j + 1)
         ELSE GrowGroup(compatible, assigned, group, j + 1)

\* The outer loop "for i in range(n)".
RECURSIVE ClusterLoop(_, _, _, _)
ClusterLoop(compatible, assigned, gs, i) ==
    IF i > Len(assigned) THEN gs
    ELSE IF assigned[i] THEN ClusterLoop(compatible, assigned, gs, i + 1)
    ELSE LET grown == GrowGroup(compatible, [assigned EXCEPT ![i] = TRUE],
                                <<i>>, i + 1)
         IN  ClusterLoop(compatible, grown[2], Append(gs, grown[1]), i + 1)

ClusterSingletons(cc, threshold) ==
    [i \in 1..Len(cc) |-> <<i>>]

ClusterByScaleCompatibility(cc, threshold) ==
    LET n == Len(cc)
    IN  IF n = 0 THEN <<>>
        ELSE IF n = 1 THEN <<<<1>>>>
        ELSE ClusterLoop(CompatibleMatrix(cc, threshold),
                         [i \in 1..n |-> FALSE], <<>>, 1)

----------------------------------------------------------------------------
(* _determine_axis_assignment *)

\* sorted(groups, key=len, reverse=True): stable, so groups of equal size
\* keep their order.
RECURSIVE InsertGroup(_, _)
InsertGroup(sorted, g) ==
    IF sorted = <<>> THEN <<g>>
    ELSE IF Len(Head(sorted)) >= Len(g)
         THEN <<Head(sorted)>> \o InsertGroup(Tail(sorted), g)
         ELSE <<g>> \o sorted

RECURSIVE SortLoop(_, _)
SortLoop(sorted, rest) ==
    IF rest = <<>> THEN sorted
    ELSE SortLoop(InsertGroup(sorted, Head(rest)), Tail(rest))

SortedGroupsUnsorted(gs) == gs

SortedGroups(gs) == SortLoop(<<>>, gs)

ClusterAssignLargestRight(sorted_groups, n) ==
    [assignments |->
        [i \in 1..n |-> IF i \in SeqRange(sorted_groups[1])
                        THEN "right" ELSE "left"],
     warnings |->
        IF Len(sorted_groups) > 2
        THEN <<[kind |-> "groups", count |-> Len(sorted_groups)]>>
        ELSE <<>>]

ClusterAssignRestRight(sorted_groups, n) ==
    [assignments |->
        [i \in 1..n |-> IF i \in SeqRange(sorted_groups[1])
                        THEN "left" ELSE "right"],
     warnings |->
        IF Len(sorted_groups) > 2
        THEN <<[kind |-> "groups", count |-> Len(sorted_groups)]>>
        ELSE <<>>]

\* The clustering branch: assignments and the overflow warning.
ClusterAssign(sorted_groups, n) ==
    [assignments |->
        [i \in 1..n |-> IF Len(sorted_groups) > 1 /\ i \in SeqRange(sorted_groups[2])
                        THEN "right" ELSE "left"],
     warnings |->
        IF Len(sorted_groups) > 2
        THEN <<[kind |-> "groups", count |-> Len(sorted_groups)]>>
        ELSE <<>>]

RECURSIVE SequentialAssignAnyEarlier(_, _, _)
SequentialAssignAnyEarlier(cc, threshold, done) ==
    LET i == Len(done) + 1
    IN  IF i > Len(cc) THEN done
        ELSE LET y_axis == cc[i].y_axis
                 any_compatible ==
                    \E j \in 1..(i - 1) :
                        ScaleCompatible(cc[i].data_range, cc[j].data_range,
                                        threshold)
                 a == IF y_axis \in {"left", "right"} THEN y_axis
                      ELSE IF i = 1 THEN "left"
                      ELSE IF any_compatible THEN "left" ELSE "right"
             IN  SequentialAssignAnyEarlier(cc, threshold, Append(done, a))

\* The sequential branch, "for i, chart_config in enumerate(chart_configs)".
RECURSIVE SequentialAssign(_, _, _)
SequentialAssign(cc, threshold, done) ==
    LET i == Len(done) + 1
    IN  IF i > Len(cc) THEN done
        ELSE LET y_axis == cc[i].y_axis
                 left_compatible ==
                    \E j \in 1..(i - 1) :
                        /\ done[j] = "left"
                        /\ ScaleCompatible(cc[i].data_range, cc[j].data_range,
                                           threshold)
                 a == IF y_axis \in {"left", "right"} THEN y_axis
                      ELSE IF i = 1 THEN "left"
                      ELSE IF left_compatible THEN "left" ELSE "right"
             IN  SequentialAssign(cc, threshold, Append(done, a))

\* The indices assigned to one axis, in increasing order.
RECURSIVE AxisCharts(_, _, _)
AxisCharts(assigned, axis, i) ==
    IF i > Len(assigned) THEN <<>>
    ELSE (IF assigned[i] = axis THEN <<i>> ELSE <<>>)
         \o AxisCharts(assigned, axis, i + 1)

\* The nested warning loops over one axis: for each i the inner loop stops
\* ("break") at the first incompatible j > i, after warning about it.
RECURSIVE AxisWarnings(_, _, _, _, _)
AxisWarnings(cc, threshold, charts, axis, i) ==
    IF Len(charts) <= 1 \/ i > Len(charts) THEN <<>>
    ELSE LET js == {j \in (i + 1)..Len(charts) :
                        ~ScaleCompatible(cc[charts[i]].data_range,
                                         cc[charts[j]].data_range, threshold)}
             first == CHOOSE j \in js : \A k \in js : j <= k
         IN  (IF js = {} THEN <<>>
              ELSE <<[kind |-> axis, idx_i |-> charts[i], idx_j |-> charts[first]]>>)
             \o AxisWarnings(cc, threshold, charts, axis, i + 1)

SequentialBranch(cc, threshold) ==
    LET assigned == SequentialAssign(cc, threshold, <<>>)
    IN  [assignments |-> assigned,
         groups |-> <<>>,
         warnings |->
            AxisWarnings(cc, threshold, AxisCharts(assigned, "right", 1), "right", 1)
            \o AxisWarnings(cc, threshold, AxisCharts(assigned, "left", 1), "left", 1)]

DetermineAxisAssignmentAlwaysCluster(c, cc, threshold) ==
    LET n == Len(cc)
    IN  IF n = 0 THEN [assignments |-> <<>>, groups |-> <<>>, warnings |-> <<>>]
        ELSE IF ConfigGet(c, "overlay_warn_scale_groups", TRUE)
        THEN LET sorted_groups ==
                    SortedGroups(ClusterByScaleCompatibility(cc, threshold))
                 r == ClusterAssign(sorted_groups, n)
             IN  [assignments |-> r.assignments,
                  groups |-> sorted_groups,
                  warnings |-> r.warnings]
        ELSE SequentialBranch(cc, threshold)

DetermineAxisAssignment(c, cc, threshold) ==
    LET n == Len(cc)
        all_auto == \A i \in 1..n : cc[i].y_axis = "auto"
    IN  IF n = 0 THEN [assignments |-> <<>>, groups |-> <<>>, warnings |-> <<>>]
        ELSE IF all_auto /\ ConfigGet(c, "overlay_warn_scale_groups", TRUE)
        THEN LET sorted_groups ==
                    SortedGroups(ClusterByScaleCompatibility(cc, threshold))
                 r == ClusterAssign(sorted_groups, n)
             IN  [assignments |-> r.assignments,
                  groups |-> sorted_groups,
                  warnings |-> r.warnings]
        ELSE SequentialBranch(cc, threshold)

----------------------------------------------------------------------------
(* Callers of the pure functions *)

ChartConfigs(n) ==
    [1..n -> [data_range : ChartRanges, y_axis : YAxis]]

\* A caller that holds N chart configurations and a threshold and has not
\* called _determine_axis_assignment yet.
InitAssign ==
    /\ cfg = DEFAULT_THEME
    /\ theme = THEME_DEFAULT
    /\ \E n \in 1..MaxCharts : chart_configs \in ChartConfigs(n)
    /\ auto_threshold \in Thresholds
    /\ assignments = <<>>
    /\ groups = <<>>
    /\ warnings = <<>>
    /\ range1 = <<0, 0>>
    /\ range2 = <<0, 0>>
    /\ compat = <<>>
    /\ pc = "start"
    /\ arg_charts = <<>>
    /\ arg_bar_mode = NoneStr
    /\ arg_max_cols = DEFAULT_MAX_COLS
    /\ fig = <<>>
    /\ last = [op |-> "none"]
    /\ callers = <<>>
    /\ before = <<>>

CallDetermineAxisAssignment ==
    /\ pc = "start"
    /\ LET r == DetermineAxisAssignment(cfg, chart_configs, auto_threshold)
       IN  /\ assignments' = r.assignments
           /\ groups' = r.groups
           /\ warnings' = r.warnings
    /\ pc' = "assigned"
    /\ UNCHANGED <<cfg, theme, chart_configs, auto_threshold, range1, range2,
                   compat, apiVars, concVars>>

NextAssign == CallDetermineAxisAssignment

SpecAssign == InitAssign /\ [][NextAssign]_vars

\* The chart configurations the caller holds after the call: the call reads
\* chart_configs and writes to none of its entries.
ChartConfigsResolved(cc, assigned) ==
    [i \in 1..Len(cc) |-> [cc[i] EXCEPT !.y_axis = assigned[i]]]

ChartConfigsAfter(cc, assigned) == cc

\* A caller that calls _determine_axis_assignment twice on the chart
\* configurations and threshold it holds and keeps the first result.
CallAssigner ==
    /\ pc \in {"start", "assigned"}
    /\ \E r \in {DetermineAxisAssignment(cfg, chart_configs, auto_threshold)} :
           /\ assignments' = r.assignments
           /\ groups' = r.groups
           /\ warnings' = r.warnings
           /\ chart_configs' = ChartConfigsAfter(chart_configs, r.assignments)
    /\ last' = [op |-> "_determine_axis_assignment",
                inputs |-> chart_configs,
                previous |-> IF pc = "start" THEN <<>>
                             ELSE <<[assignments |-> assignments,
                                     groups |-> groups]>>]
    /\ pc' = IF pc = "start" THEN "assigned" ELSE "repeated"
    /\ UNCHANGED <<cfg, theme, auto_threshold, range1, range2, compat,
                   arg_charts, arg_bar_mode, arg_max_cols, fig, concVars>>

NextRepeat == CallAssigner

SpecRepeat == InitAssign /\ [][NextRepeat]_vars

\* A caller that holds two ranges and a threshold and calls
\* _scale_compatible on them in both orders and on each range with itself.
InitCompat ==
    /\ cfg = DEFAULT_THEME
    /\ theme = THEME_DEFAULT
    /\ chart_configs = <<>>
    /\ auto_threshold \in {<<k, ThresholdDen>> : k \in 0..MaxThresholdNum}
    /\ assignments = <<>>
    /\ groups = <<>>
    /\ warnings = <<>>
    /\ range1 \in Ranges
    /\ range2 \in Ranges
    /\ compat = <<>>
    /\ pc = "start"
    /\ arg_charts = <<>>
    /\ arg_bar_mode = NoneStr
    /\ arg_max_cols = DEFAULT_MAX_COLS
    /\ fig = <<>>
    /\ last = [op |-> "none"]
    /\ callers = <<>>
    /\ before = <<>>

CallScaleCompatible(tag, a, b) ==
    /\ pc = "start"
    /\ \A k \in 1..Len(compat) : compat[k].call # tag
    /\ compat' = Append(compat, [call |-> tag, r1 |-> a, r2 |-> b,
                                 result |-> ScaleCompatible(a, b, auto_threshold)])
    /\ UNCHANGED <<cfg, theme, chart_configs, auto_threshold, assignments,
                   groups, warnings, range1, range2, pc, apiVars,
                   concVars>>

CallCompat12 == CallScaleCompatible("12", range1, range2)
CallCompat21 == CallScaleCompatible("21", range2, range1)
CallCompat11 == CallScaleCompatible("11", range1, range1)

NextCompat == CallCompat12 \/ CallCompat21 \/ CallCompat11

SpecCompat == InitCompat /\ [][NextCompat]_vars

----------------------------------------------------------------------------
(* Chart data: _extract_chart_data and _get_data_range *)

\* A series record of a chart list: its subtitle and its value-axis data.
\* y = <<>> stands for a series without data (get_chart_data gives None).
\* The position data (x, label) has the length of y.
GetChartData(chart) == chart.y

\* _extract_chart_data(figure); a figure without "meta" has no
\* _chart_metadata attribute.
ExtractChartData(figure) ==
    IF "meta" \notin DOMAIN figure
    THEN [ok |-> FALSE, error |-> "Figure is missing chart metadata"]
    ELSE LET metadata == figure.meta
         IN  IF DictGet(metadata, "type", NoneStr) = NoneStr
             THEN [ok |-> FALSE, error |-> "missing 'type'"]
             ELSE IF "charts" \notin DOMAIN metadata
             THEN [ok |-> FALSE, error |-> "missing 'charts'"]
             ELSE [ok |-> TRUE,
                   chart_data |-> [type |-> metadata.type,
                                   charts |-> metadata.charts,
                                   metadata |-> metadata]]

RECURSIVE SeqMin(_)
SeqMin(q) ==
    IF Len(q) = 1 THEN q[1]
    ELSE LET m == SeqMin(Tail(q)) IN IF q[1] <= m THEN q[1] ELSE m

RECURSIVE SeqMax(_)
SeqMax(q) ==
    IF Len(q) = 1 THEN q[1]
    ELSE LET m == SeqMax(Tail(q)) IN IF q[1] >= m THEN q[1] ELSE m

\* chart_data["metadata"].get("num_bins", 20)
DEFAULT_NUM_BINS == 20

\* np.histogram(x, bins=num_bins)[0]: the counts of num_bins bins of equal
\* width over [min, max]; the maximum falls into the last bin, and when all
\* samples are equal the bins span [min - 0.5, max + 0.5].
HistogramCounts(x, num_bins) ==
    LET lo == SeqMin(x)
        hi == SeqMax(x)
        BinOf(v) == IF lo = hi THEN num_bins \div 2
                    ELSE IF v = hi THEN num_bins - 1
                    ELSE ((v - lo) * num_bins) \div (hi - lo)
    IN  [b \in 1..num_bins |->
            Cardinality({k \in 1..Len(x) : BinOf(x[k]) = b - 1})]

\* y_values of _get_data_range: the values of every series of a line, bar or
\* scatter chart and the bin counts of every series of a histogram; no other
\* type contributes a value.
RECURSIVE YValues(_, _, _)
YValues(chart_type, chart_list, num_bins) ==
    IF chart_list = <<>> THEN <<>>
    ELSE (IF chart_type \in {"linechart", "barchart", "scatterchart"}
          THEN GetChartData(Head(chart_list))
          ELSE IF chart_type = "histogram" /\ GetChartData(Head(chart_list)) # <<>>
          THEN HistogramCounts(GetChartData(Head(chart_list)), num_bins)
          ELSE <<>>)
         \o YValues(chart_type, Tail(chart_list), num_bins)

GetDataRangeFirstSeries(chart_data) ==
    LET y_values == YValues(chart_data.type, SubSeq(chart_data.charts, 1, 1),
                            DictGet(chart_data.metadata, "num_bins", DEFAULT_NUM_BINS))
    IN  IF y_values = <<>> THEN <<0, 1>>
        ELSE <<SeqMin(y_values), SeqMax(y_values)>>

GetDataRange(chart_data) ==
    LET y_values == YValues(chart_data.type, chart_data.charts,
                            DictGet(chart_data.metadata, "num_bins", DEFAULT_NUM_BINS))
    IN  IF y_values = <<>> THEN <<0, 1>>
        ELSE <<SeqMin(y_values), SeqMax(y_values)>>

----------------------------------------------------------------------------
(* Per-type renderers: each returns the artists it adds to the axis, and   *)
(* whether it raised.                                                      *)

\* custom_color_cycle(has_multi, n_charts): reads config["color_general_multiple"]
\* and asserts that it is a palette name and that n_charts > 0.
ColorCycleRaises(c, n_charts) ==
    \/ ConfigItem(c, "color_general_multiple") = NoneStr
    \/ n_charts <= 0

\* The label of a drawn series: legend_label if given, else the subtitle.
LabelOfSubtitle(chart, legend_label) == DictGet(chart, "subtitle", NoneStr)

LabelOf(chart, legend_label) ==
    IF legend_label # NoneStr THEN legend_label
    ELSE DictGet(chart, "subtitle", NoneStr)

\* _plot_line_on_axis
RECURSIVE PlotLineOnAxis(_, _, _, _)
PlotLineOnAxis(c, chart_list, z_order, legend_label) ==
    IF chart_list = <<>> THEN [raised |-> FALSE, drawn |-> <<>>]
    ELSE LET chart == Head(chart_list)
             rest == PlotLineOnAxis(c, Tail(chart_list), z_order, legend_label)
         IN  IF GetChartData(chart) = <<>> THEN rest
             ELSE [rest EXCEPT !.drawn =
                      <<[kind |-> "line", label |-> LabelOf(chart, legend_label),
                         zorder |-> z_order, mode |-> NoneStr, conf |-> c]>> \o @]

\* np.unique(hue_data): the distinct values in increasing order
RECURSIVE SortedSeq(_)
SortedSeq(S) ==
    IF S = {} THEN <<>>
    ELSE LET m == CHOOSE v \in S : \A w \in S : v <= w
         IN  <<m>> \o SortedSeq(S \ {m})

\* The labels of the artists of one scatter series: with hue data one artist
\* per distinct hue value, labelled str(hue_val); without it one artist.
ScatterLabels(chart, legend_label) ==
    IF "hue" \in DOMAIN chart
    THEN LET unique_hues == SortedSeq(SeqRange(chart.hue))
         IN  [i \in 1..Len(unique_hues) |-> ToString(unique_hues[i])]
    ELSE <<LabelOf(chart, legend_label)>>

\* _plot_scatter_on_axis, for series without size data
RECURSIVE PlotScatterOnAxis(_, _, _, _)
PlotScatterOnAxis(c, chart_list, z_order, legend_label) ==
    IF chart_list = <<>> THEN [raised |-> FALSE, drawn |-> <<>>]
    ELSE LET chart == Head(chart_list)
             rest == PlotScatterOnAxis(c, Tail(chart_list), z_order, legend_label)
             labels == ScatterLabels(chart, legend_label)
         IN  IF GetChartData(chart) = <<>> THEN rest
             ELSE [rest EXCEPT !.drawn =
                      [i \in 1..Len(labels) |->
                          [kind |-> "scatter", label |-> labels[i],
                           zorder |-> z_order, mode |-> NoneStr, conf |-> c]]
                      \o @]

\* numpy broadcasting of two vectors of lengths a and b
Broadcastable(a, b) == a = b \/ a = 1 \/ b = 1

\* bar_bottoms + np.array(y)
AddVectorsKeepBottoms(u, v) == u

AddVectors(u, v) ==
    LET n == IF Len(u) >= Len(v) THEN Len(u) ELSE Len(v)
    IN  [k \in 1..n |-> (IF Len(u) = 1 THEN u[1] ELSE u[k])
                        + (IF Len(v) = 1 THEN v[1] ELSE v[k])]

\* The loop "for idx, chart in enumerate(charts)" of _plot_bar_on_axis.
\* idx is 0-based as in the code; bar_bottoms is <<>> for None and <<vector>>
\* otherwise; widths and offsets are rationals <<num, den>>.
RECURSIVE BarLoop(_, _, _, _, _, _, _, _, _)
BarLoop(c, chart_list, z_order, legend_label, mode, x_width, alpha, idx, bar_bottoms) ==
    IF idx >= Len(chart_list) THEN [raised |-> FALSE, drawn |-> <<>>]
    ELSE LET chart == chart_list[idx + 1]
             y == GetChartData(chart)
             x_offset == IF mode = "group" THEN <<idx * x_width[1], x_width[2]>>
                         ELSE <<0, 1>>
             stacked == mode = "stack" /\ bar_bottoms # <<>>
             artist == [kind |-> "bar", label |-> LabelOf(chart, legend_label),
                        zorder |-> z_order, mode |-> mode, conf |-> c,
                        width |-> x_width, x_offset |-> x_offset,
                        alpha |-> alpha, y |-> y,
                        bottom |-> IF stacked THEN bar_bottoms[1] ELSE <<>>]
         IN  IF y = <<>>
             THEN BarLoop(c, chart_list, z_order, legend_label, mode, x_width,
                          alpha, idx + 1, bar_bottoms)
             ELSE IF stacked /\ ~Broadcastable(Len(y), Len(bar_bottoms[1]))
             THEN [raised |-> TRUE, drawn |-> <<>>]
             ELSE LET rest == BarLoop(c, chart_list, z_order, legend_label, mode,
                                      x_width, alpha, idx + 1,
                                      IF stacked
                                      THEN <<AddVectors(bar_bottoms[1], y)>>
                                      ELSE bar_bottoms)
                  IN  [rest EXCEPT !.drawn = <<artist>> \o @]

\* _plot_bar_on_axis
PlotBarOnAxisFullWidth(c, chart_list, z_order, legend_label, bar_mode_arg) ==
    LET given == IF bar_mode_arg = NoneStr
                 THEN ConfigGet(c, "overlay_bar_mode", "group")
                 ELSE bar_mode_arg
        mode == IF given \in {"group", "stack", "overlay"} THEN given ELSE "group"
        first_chart_labels == GetChartData(chart_list[1])
    IN  BarLoop(c, chart_list, z_order, legend_label, mode,
                <<ConfigGet(c, "plot_bar_width", 8), 1>>,
                IF Len(chart_list) > 1 /\ mode = "overlay"
                THEN <<ConfigGet(c, "overlay_bar_alpha", 7)>> ELSE <<>>,
                0,
                IF mode = "stack" /\ first_chart_labels # <<>>
                THEN <<[k \in 1..Len(first_chart_labels) |-> 0]>> ELSE <<>>)

PlotBarOnAxis(c, chart_list, z_order, legend_label, bar_mode_arg) ==
    LET n_charts == Len(chart_list)
        given == IF bar_mode_arg = NoneStr
                 THEN ConfigGet(c, "overlay_bar_mode", "group")
                 ELSE bar_mode_arg
        mode == IF given \in {"group", "stack", "overlay"} THEN given ELSE "group"
        width == ConfigGet(c, "plot_bar_width", 8)
        x_width == IF mode = "group" THEN <<width, n_charts>> ELSE <<width, 1>>
        alpha == IF n_charts > 1 /\ mode = "overlay"
                 THEN <<ConfigGet(c, "overlay_bar_alpha", 7)>> ELSE <<>>
        first_chart_labels == GetChartData(chart_list[1])
        bar_bottoms == IF mode = "stack" /\ first_chart_labels # <<>>
                       THEN <<[k \in 1..Len(first_chart_labels) |-> 0]>>
                       ELSE <<>>
    IN  BarLoop(c, chart_list, z_order, legend_label, mode, x_width, alpha, 0,
                bar_bottoms)

\* _plot_histogram_on_axis: nothing is drawn when no series has data
RECURSIVE HistLoop(_, _, _, _, _)
HistLoop(c, chart_list, z_order, legend_label, alpha) ==
    IF chart_list = <<>> THEN <<>>
    ELSE (IF GetChartData(Head(chart_list)) = <<>> THEN <<>>
          ELSE <<[kind |-> "hist", label |-> LabelOf(Head(chart_list), legend_label),
                  zorder |-> z_order, mode |-> NoneStr, conf |-> c,
                  alpha |-> alpha]>>)
         \o HistLoop(c, Tail(chart_list), z_order, legend_label, alpha)

PlotHistogramOnAxis(c, chart_list, z_order, legend_label) ==
    [raised |-> FALSE,
     drawn |-> HistLoop(c, chart_list, z_order, legend_label,
                        IF Len(chart_list) > 1
                        THEN <<ConfigGet(c, "overlay_hist_alpha", 6)>> ELSE <<>>)]

----------------------------------------------------------------------------
(* _plot_chart_on_axis *)

\* The default z-order of a chart type, read from the configuration in effect.
DefaultZOrderFlat(c, chart_type) == 1

DefaultZOrder(c, chart_type) ==
    IF chart_type = "barchart" THEN ConfigGet(c, "overlay_default_zorder_bar", 1)
    ELSE IF chart_type = "linechart" THEN ConfigGet(c, "overlay_default_zorder_line", 2)
    ELSE IF chart_type = "scatterchart" THEN ConfigGet(c, "overlay_default_zorder_scatter", 2)
    ELSE IF chart_type = "histogram" THEN ConfigGet(c, "overlay_default_zorder_hist", 1)
    ELSE 1

\* The body of the try block, run under the configuration c in effect.
RenderUnder(c, chart_data, z_order_arg, legend_label, bar_mode_arg) ==
    LET chart_type == chart_data.type
        chart_list == chart_data.charts
        z_order == IF z_order_arg = <<>> THEN DefaultZOrder(c, chart_type)
                   ELSE z_order_arg[1]
    IN  IF ColorCycleRaises(c, Len(chart_list))
        THEN [raised |-> TRUE, drawn |-> <<>>]
        ELSE IF chart_type = "linechart"
        THEN PlotLineOnAxis(c, chart_list, z_order, legend_label)
        ELSE IF chart_type = "barchart"
        THEN PlotBarOnAxis(c, chart_list, z_order, legend_label, bar_mode_arg)
        ELSE IF chart_type = "scatterchart"
        THEN PlotScatterOnAxis(c, chart_list, z_order, legend_label)
        ELSE IF chart_type = "histogram"
        THEN PlotHistogramOnAxis(c, chart_list, z_order, legend_label)
        ELSE [raised |-> FALSE, drawn |-> <<>>]

\* The configuration in effect inside the try block: the chart's own
\* config_snapshot if its metadata holds one, else the global one.
SwappedConfig(c, metadata) ==
    IF "config_snapshot" \in DOMAIN metadata THEN metadata.config_snapshot ELSE c

SwappedTheme(th, metadata) ==
    IF "config_snapshot" \in DOMAIN metadata /\ "theme" \in DOMAIN metadata
    THEN metadata.theme ELSE th

\* save -> swap -> render -> restore, run without interruption.  The result
\* holds the global configuration and theme the call leaves behind.
PlotChartOnAxisNoFinally(c, th, chart_data, z_order_arg, legend_label, bar_mode_arg) ==
    LET metadata == chart_data.metadata
        r == RenderUnder(SwappedConfig(c, metadata), chart_data, z_order_arg,
                         legend_label, bar_mode_arg)
    IN  [cfg |-> IF r.raised THEN SwappedConfig(c, metadata) ELSE c,
         theme |-> IF r.raised THEN SwappedTheme(th, metadata) ELSE th,
         raised |-> r.raised, drawn |-> r.drawn,
         swapped |-> "config_snapshot" \in DOMAIN metadata]

PlotChartOnAxis(c, th, chart_data, z_order_arg, legend_label, bar_mode_arg) ==
    LET metadata == chart_data.metadata
        original_config == c
        original_theme == th
        r == RenderUnder(SwappedConfig(c, metadata), chart_data, z_order_arg,
                         legend_label, bar_mode_arg)
    IN  [cfg |-> original_config, theme |-> original_theme,
         raised |-> r.raised, drawn |-> r.drawn,
         swapped |-> "config_snapshot" \in DOMAIN metadata]

\* target_ax = ax_right if axis_assignment == "right" else ax_left
TargetAxisLeft(axis_assignment) == "left"

TargetAxis(axis_assignment) ==
    IF axis_assignment = "right" THEN "right" ELSE "left"

\* The artists of the call for chart i, tagged with the axis they were drawn on.
OnAxis(axis, i, drawn) ==
    [k \in 1..Len(drawn) |-> [axis |-> axis, chart |-> i, artist |-> drawn[k]]]

\* The loop "for chart_config, axis_assignment in zip(...)" of OverlayChart
\* and of the grid compositor: the global configuration is threaded through
\* the calls, and the first call that raises ends the loop.
RECURSIVE RenderLoop(_, _, _, _, _, _)
RenderLoop(c, th, ccs, axes, bar_mode_arg, i) ==
    IF i > Len(ccs) \/ i > Len(axes)
    THEN [cfg |-> c, theme |-> th, raised |-> FALSE, canvas |-> <<>>,
          swapped |-> FALSE]
    ELSE LET target == TargetAxis(axes[i])
             After(p) ==
                 IF p.raised
                 THEN [cfg |-> p.cfg, theme |-> p.theme, raised |-> TRUE,
                       canvas |-> OnAxis(target, i, p.drawn),
                       swapped |-> p.swapped]
                 ELSE LET rest == RenderLoop(p.cfg, p.theme, ccs, axes,
                                             bar_mode_arg, i + 1)
                      IN  [rest EXCEPT !.canvas = OnAxis(target, i, p.drawn) \o @,
                                       !.swapped = p.swapped \/ @]
         IN  With(PlotChartOnAxis(c, th, ccs[i].chart_data,
                                  DictGet(ccs[i], "z_order", <<>>),
                                  DictGet(ccs[i], "legend_label", NoneStr),
                                  bar_mode_arg),
                  After)

----------------------------------------------------------------------------
(* OverlayChart *)

DEFAULT_AUTO_THRESHOLD == <<3, 1>>

\* The loop that extracts the data of all figures: the first failing entry
\* decides the error.
RECURSIVE ExtractLoopRestFirst(_, _)
ExtractLoopRestFirst(chart_entries, i) ==
    IF i > Len(chart_entries) THEN [ok |-> TRUE, chart_configs |-> <<>>]
    ELSE LET chart_config == chart_entries[i]
             rest == ExtractLoopRestFirst(chart_entries, i + 1)
         IN  IF ~rest.ok THEN rest
             ELSE IF "figure" \notin DOMAIN chart_config
             THEN [ok |-> FALSE, error |-> "missing 'figure' key"]
             ELSE LET e == ExtractChartData(chart_config.figure)
                  IN  IF ~e.ok THEN [ok |-> FALSE, error |-> e.error]
                      ELSE [rest EXCEPT !.chart_configs =
                              <<[chart_data |-> e.chart_data,
                                 data_range |-> GetDataRange(e.chart_data),
                                 y_axis |-> DictGet(chart_config, "y_axis", "auto"),
                                 z_order |-> DictGet(chart_config, "z_order", <<>>),
                                 legend_label |->
                                    DictGet(chart_config, "legend_label", NoneStr)]>>
                              \o @]

RECURSIVE ExtractLoop(_, _)
ExtractLoop(chart_entries, i) ==
    IF i > Len(chart_entries) THEN [ok |-> TRUE, chart_configs |-> <<>>]
    ELSE LET chart_config == chart_entries[i]
         IN  IF "figure" \notin DOMAIN chart_config
             THEN [ok |-> FALSE, error |-> "missing 'figure' key"]
             ELSE LET e == ExtractChartData(chart_config.figure)
                  IN  IF ~e.ok THEN [ok |-> FALSE, error |-> e.error]
                      ELSE LET rest == ExtractLoop(chart_entries, i + 1)
                           IN  IF ~rest.ok THEN rest
                               ELSE [rest EXCEPT !.chart_configs =
                                      <<[chart_data |-> e.chart_data,
                                         data_range |-> GetDataRange(e.chart_data),
                                         y_axis |-> DictGet(chart_config, "y_axis", "auto"),
                                         z_order |-> DictGet(chart_config, "z_order", <<>>),
                                         legend_label |->
                                            DictGet(chart_config, "legend_label", NoneStr)]>>
                                      \o @]

\* all_charts: the chart lists of all figures, flattened
RECURSIVE AllCharts(_)
AllCharts(ccs) ==
    IF ccs = <<>> THEN <<>>
    ELSE Head(ccs).chart_data.charts \o AllCharts(Tail(ccs))

\* The warning about thin grouped bars: width / bar_chart_count < 0.15
ThinBarWarnings(c, ccs, mode) ==
    LET bar_chart_count ==
            Cardinality({i \in 1..Len(ccs) : ccs[i].chart_data.type = "barchart"})
    IN  IF /\ mode = "group"
           /\ ConfigGet(c, "overlay_warn_thin_bars", TRUE)
           /\ bar_chart_count > 1
           /\ ConfigGet(c, "plot_bar_width", 8) * 100 < 15 * 10 * bar_chart_count
        THEN <<[kind |-> "thin_bars", count |-> bar_chart_count]>>
        ELSE <<>>

\* stored_chart_configs: what is kept of each chart for the replay
StoredChartConfigsNoOverrides(ccs) ==
    [i \in 1..Len(ccs) |->
        [chart_data |-> ccs[i].chart_data,
         z_order |-> <<>>,
         legend_label |-> NoneStr]]

StoredChartConfigs(ccs) ==
    [i \in 1..Len(ccs) |->
        [chart_data |-> ccs[i].chart_data,
         z_order |-> ccs[i].z_order,
         legend_label |-> ccs[i].legend_label]]

\* The labelled artists on one axis in the order they were added, each named
\* by its position on the canvas; bars selects the bar containers, ~bars
\* every other kind.
RECURSIVE ArtistHandles(_, _, _, _)
ArtistHandles(canvas, axis, bars, k) ==
    IF k > Len(canvas) THEN <<>>
    ELSE (IF /\ canvas[k].axis = axis
             /\ canvas[k].artist.label # NoneStr
             /\ (canvas[k].artist.kind = "bar") = bars
          THEN <<k>> ELSE <<>>)
         \o ArtistHandles(canvas, axis, bars, k + 1)

\* ax.get_legend_handles_labels(): matplotlib reports the labelled lines,
\* scatter collections and histogram patches of the axis in the order they
\* were added, followed by its labelled bar containers; an artist drawn
\* with label=None has no handle.
LegendHandlesLabels(canvas, axis) ==
    LET handles == ArtistHandles(canvas, axis, FALSE, 1)
                   \o ArtistHandles(canvas, axis, TRUE, 1)
    IN  [handles |-> handles,
         labels |-> [k \in 1..Len(handles) |-> canvas[handles[k]].artist.label]]

\* f"{label} (L)" and f"{label} (R)"
Suffixed(labels, suffix) ==
    [k \in 1..Len(labels) |-> labels[k] \o suffix]

CombineLegendsNoSuffix(canvas, has_right) ==
    LET left == LegendHandlesLabels(canvas, "left")
        right == LegendHandlesLabels(canvas, "right")
        handles == IF has_right THEN left.handles \o right.handles
                   ELSE left.handles
        labels == IF has_right THEN left.labels \o right.labels
                  ELSE left.labels
    IN  IF handles = <<>> THEN <<>>
        ELSE <<[axis |-> "left", title |-> "Legend", handles |-> handles,
                labels |-> labels]>>

\* _combine_legends(ax_left, ax_right): the legends installed by the call,
\* none or one on the left axis.
CombineLegends(canvas, has_right) ==
    LET left == LegendHandlesLabels(canvas, "left")
        right == LegendHandlesLabels(canvas, "right")
        handles == IF has_right THEN left.handles \o right.handles
                   ELSE left.handles
        labels == IF has_right
                  THEN Suffixed(left.labels, " (L)")
                       \o Suffixed(right.labels, " (R)")
                  ELSE left.labels
    IN  IF handles = <<>> THEN <<>>
        ELSE <<[axis |-> "left", title |-> "Legend", handles |-> handles,
                labels |-> labels]>>

\* OverlayChart(charts, auto_secondary_axis, bar_mode, show_legend): the
\* outcome, the figure returned (if any), whether plt.subplots was reached
\* and what was drawn, and the global configuration left.
OverlayChart(c, th, chart_entries, threshold_arg, bar_mode_arg, show_legend) ==
    IF chart_entries = <<>>
    THEN [status |-> "error", error |-> "At least one chart is required",
          cfg |-> c, theme |-> th, fig |-> <<>>, warnings |-> <<>>,
          swapped |-> FALSE, created |-> FALSE, canvas |-> <<>>]
    ELSE
    LET auto_secondary_axis ==
            IF threshold_arg = <<>>
            THEN ConfigGet(c, "overlay_auto_threshold", DEFAULT_AUTO_THRESHOLD)
            ELSE threshold_arg[1]
        mode == IF bar_mode_arg = NoneStr
                THEN ConfigGet(c, "overlay_bar_mode", "group")
                ELSE bar_mode_arg
        x == ExtractLoop(chart_entries, 1)
    IN  IF ~x.ok
        THEN [status |-> "error", error |-> x.error,
              cfg |-> c, theme |-> th, fig |-> <<>>, warnings |-> <<>>,
              swapped |-> FALSE, created |-> FALSE, canvas |-> <<>>]
        ELSE
        LET ccs == x.chart_configs
            a == DetermineAxisAssignment(c, ccs, auto_secondary_axis)
            axis_assignments == a.assignments
            needs_secondary == \E i \in 1..Len(axis_assignments) :
                                    axis_assignments[i] = "right"
            warned == a.warnings \o ThinBarWarnings(c, ccs, mode)
            r == RenderLoop(c, th, ccs, axis_assignments, mode, 1)
            stored_chart_configs == StoredChartConfigs(ccs)
        IN  IF r.raised
            THEN [status |-> "error", error |-> "render",
                  cfg |-> r.cfg, theme |-> r.theme, fig |-> <<>>,
                  warnings |-> warned, swapped |-> r.swapped,
                  created |-> TRUE, canvas |-> r.canvas]
            ELSE [status |-> "ok", error |-> NoneStr,
                  cfg |-> r.cfg, theme |-> r.theme, warnings |-> warned,
                  swapped |-> r.swapped, created |-> TRUE,
                  canvas |-> r.canvas,
                  fig |-> <<[meta |->
                               [type |-> "overlay",
                                charts |-> AllCharts(ccs),
                                chart_configs |-> stored_chart_configs,
                                show_legend |-> show_legend,
                                bar_mode |-> mode,
                                auto_secondary_axis |-> auto_secondary_axis,
                                axis_assignments |-> axis_assignments,
                                theme |-> r.theme,
                                config_snapshot |-> r.cfg],
                             has_right |-> needs_secondary,
                             canvas |-> r.canvas,
                             legend |-> IF show_legend
                                        THEN CombineLegends(r.canvas,
                                                            needs_secondary)
                                        ELSE <<>>]>>]

----------------------------------------------------------------------------
(* The grid compositor: _figure_grid_layout_impl *)

CHART_PLOTTERS ==
    {"linechart", "barchart", "histogram", "heatmap", "scatterchart",
     "boxplot", "parallelcoords"}

\* The chart configurations replayed for an overlay descriptor: the stored
\* chart_configs, or for a descriptor without them each chart of the
\* flattened chart list as a line chart carrying the overlay's own metadata.
ReplayConfigs(metadata) ==
    IF "chart_configs" \in DOMAIN metadata THEN metadata.chart_configs
    ELSE [i \in 1..Len(DictGet(metadata, "charts", <<>>)) |->
            [chart_data |-> [type |-> "linechart",
                             charts |-> <<metadata.charts[i]>>,
                             metadata |-> metadata]]]

ReplayBarMode(metadata) ==
    IF "chart_configs" \in DOMAIN metadata
    THEN DictGet(metadata, "bar_mode", "group") ELSE NoneStr

\* The loop "for idx, fig in enumerate(figures)": each figure is rendered
\* into its own cell; the first error ends the call.
RECURSIVE GridLoop(_, _, _, _)
GridLoop(c, th, figures, idx) ==
    IF idx > Len(figures)
    THEN [status |-> "ok", error |-> NoneStr, cfg |-> c, theme |-> th,
          cells |-> <<>>, swapped |-> FALSE]
    ELSE
    LET x == ExtractChartData(figures[idx])
        failed(msg, c2, th2) ==
            [status |-> "error", error |-> msg, cfg |-> c2, theme |-> th2,
             cells |-> <<>>, swapped |-> FALSE]
    IN  IF ~x.ok THEN failed(x.error, c, th)
        ELSE IF x.chart_data.type = "overlay"
        THEN LET metadata == x.chart_data.metadata
                 axis_assignments == DictGet(metadata, "axis_assignments", <<>>)
                 needs_secondary == \E i \in 1..Len(axis_assignments) :
                                        axis_assignments[i] = "right"
                 r == RenderLoop(c, th, ReplayConfigs(metadata), axis_assignments,
                                 ReplayBarMode(metadata), 1)
             IN  IF r.raised THEN [failed("render", r.cfg, r.theme)
                                      EXCEPT !.swapped = r.swapped]
                 ELSE LET rest == GridLoop(r.cfg, r.theme, figures, idx + 1)
                      IN  [rest EXCEPT
                             !.cells = IF rest.status = "error" THEN <<>>
                                       ELSE <<[kind |-> "overlay",
                                               has_right |-> needs_secondary,
                                               canvas |-> r.canvas]>> \o @,
                             !.swapped = r.swapped \/ @]
        ELSE IF x.chart_data.type \notin CHART_PLOTTERS
        THEN failed("Unknown chart type", c, th)
        \* any other type is handed to its plotter, which draws the cell
        ELSE LET rest == GridLoop(c, th, figures, idx + 1)
             IN  [rest EXCEPT
                    !.cells = IF rest.status = "error" THEN <<>>
                              ELSE <<[kind |-> x.chart_data.type,
                                      charts |-> x.chart_data.charts]>> \o @]

\* A layout_spec holds the four required keys.
RequiredKeys == {"row", "col", "rowspan", "colspan"}

SpecComplete(spec) == RequiredKeys \subseteq DOMAIN spec

\* A call that raised: no figure is returned.
GridError(msg, c, th, swapped) ==
    [status |-> "error", error |-> msg, cfg |-> c, theme |-> th,
     cells |-> <<>>, swapped |-> swapped, layout |-> NoneStr,
     nrows |-> 0, ncols |-> 0, axes |-> <<>>, hidden |-> {}]

\* Custom layout: one axis per layout_spec, in list order, on a GridSpec as
\* large as the specs need.
CustomAxes(layout_specs) ==
    [layout |-> "custom",
     nrows |-> SeqMax([i \in 1..Len(layout_specs) |->
                          layout_specs[i].row + layout_specs[i].rowspan]),
     ncols |-> SeqMax([i \in 1..Len(layout_specs) |->
                          layout_specs[i].col + layout_specs[i].colspan]),
     axes |-> [i \in 1..Len(layout_specs) |->
                  [row |-> layout_specs[i].row, col |-> layout_specs[i].col,
                   rowspan |-> layout_specs[i].rowspan,
                   colspan |-> layout_specs[i].colspan]]]

\* Uniform layout: nrows = math.ceil(n_figures / max_cols),
\* ncols = min(max_cols, n_figures); axes.flatten() lists the cells of the
\* nrows x ncols grid row by row.
UniformAxesColumnMajor(n_figures, max_cols) ==
    LET nrows == (n_figures + max_cols - 1) \div max_cols
        ncols == IF max_cols < n_figures THEN max_cols ELSE n_figures
    IN  [layout |-> "auto", nrows |-> nrows, ncols |-> ncols,
         axes |-> [k \in 1..(nrows * ncols) |->
                      [row |-> (k - 1) % nrows, col |-> (k - 1) \div nrows,
                       rowspan |-> 1, colspan |-> 1]]]

UniformAxes(n_figures, max_cols) ==
    LET nrows == (n_figures + max_cols - 1) \div max_cols
        ncols == IF max_cols < n_figures THEN max_cols ELSE n_figures
    IN  [layout |-> "auto", nrows |-> nrows, ncols |-> ncols,
         axes |-> [k \in 1..(nrows * ncols) |->
                      [row |-> (k - 1) \div ncols, col |-> (k - 1) % ncols,
                       rowspan |-> 1, colspan |-> 1]]]

\* _figure_grid_layout_impl(figures, layout_specs, max_cols); layout_specs
\* is <<>> for None.  Figure idx is rendered into axes[idx]; in the uniform
\* layout the axes from n_figures on are turned off.
FigureGridLayoutImpl(c, th, figures, layout_specs, max_cols) ==
    LET n_figures == Len(figures)
    IN  IF figures = <<>>
        THEN GridError("At least one figure is required", c, th, FALSE)
        ELSE IF layout_specs # <<>> /\ Len(layout_specs) # n_figures
        THEN GridError("layout_specs length must match figures length", c, th,
                       FALSE)
        ELSE IF /\ layout_specs # <<>>
                /\ \E i \in 1..Len(layout_specs) : ~SpecComplete(layout_specs[i])
        THEN GridError("layout_specs missing required keys", c, th, FALSE)
        ELSE
        LET grid == IF layout_specs # <<>> THEN CustomAxes(layout_specs)
                    ELSE UniformAxes(n_figures, max_cols)
            n_axes == Len(grid.axes)
            shown == SubSeq(figures, 1,
                            IF n_figures < n_axes THEN n_figures ELSE n_axes)
            r == GridLoop(c, th, shown, 1)
        IN  IF r.status = "error"
            THEN GridError(r.error, r.cfg, r.theme, r.swapped)
            ELSE [status |-> "ok", error |-> NoneStr, cfg |-> r.cfg,
                  theme |-> r.theme, cells |-> r.cells, swapped |-> r.swapped,
                  layout |-> grid.layout, nrows |-> grid.nrows,
                  ncols |-> grid.ncols, axes |-> grid.axes,
                  hidden |-> IF layout_specs = <<>>
                             THEN (n_figures + 1)..n_axes ELSE {}]

\* The loop of FigureGridLayout over its chart entries: the first entry
\* without a figure, or with an incomplete layout_spec, decides the error.
RECURSIVE ValidateEntries(_, _)
ValidateEntries(charts, i) ==
    IF i > Len(charts) THEN [ok |-> TRUE, error |-> NoneStr]
    ELSE IF "figure" \notin DOMAIN charts[i]
    THEN [ok |-> FALSE, error |-> "missing 'figure' key"]
    ELSE IF /\ "layout_spec" \in DOMAIN charts[i]
            /\ ~SpecComplete(charts[i].layout_spec)
    THEN [ok |-> FALSE, error |-> "layout_spec missing required keys"]
    ELSE ValidateEntries(charts, i + 1)

\* FigureGridLayout(charts, max_cols)
FigureGridLayoutNoEmptyCheck(c, th, charts, max_cols) ==
    LET v == ValidateEntries(charts, 1)
        given == {i \in 1..Len(charts) : "layout_spec" \in DOMAIN charts[i]}
        has_custom_layout == given # {}
    IN  IF ~v.ok THEN GridError(v.error, c, th, FALSE)
        ELSE IF has_custom_layout /\ given # 1..Len(charts)
        THEN GridError("Mix of custom and automatic layout is not supported",
                       c, th, FALSE)
        ELSE FigureGridLayoutImpl(
                 c, th, [i \in 1..Len(charts) |-> charts[i].figure],
                 IF has_custom_layout
                 THEN [i \in 1..Len(charts) |-> charts[i].layout_spec]
                 ELSE <<>>,
                 max_cols)

FigureGridLayoutMixedAllowed(c, th, charts, max_cols) ==
    IF charts = <<>>
    THEN GridError("At least one chart is required", c, th, FALSE)
    ELSE
    LET v == ValidateEntries(charts, 1)
        given == {i \in 1..Len(charts) : "layout_spec" \in DOMAIN charts[i]}
    IN  IF ~v.ok THEN GridError(v.error, c, th, FALSE)
        ELSE FigureGridLayoutImpl(
                 c, th, [i \in 1..Len(charts) |-> charts[i].figure],
                 IF given = 1..Len(charts)
                 THEN [i \in 1..Len(charts) |-> charts[i].layout_spec]
                 ELSE <<>>,
                 max_cols)

FigureGridLayout(c, th, charts, max_cols) ==
    IF charts = <<>>
    THEN GridError("At least one chart is required", c, th, FALSE)
    ELSE
    LET v == ValidateEntries(charts, 1)
        given == {i \in 1..Len(charts) : "layout_spec" \in DOMAIN charts[i]}
        has_custom_layout == given # {}
    IN  IF ~v.ok THEN GridError(v.error, c, th, FALSE)
        ELSE IF has_custom_layout /\ given # 1..Len(charts)
        THEN GridError("Mix of custom and automatic layout is not supported",
                       c, th, FALSE)
        ELSE FigureGridLayoutImpl(
                 c, th, [i \in 1..Len(charts) |-> charts[i].figure],
                 IF has_custom_layout
                 THEN [i \in 1..Len(charts) |-> charts[i].layout_spec]
                 ELSE <<>>,
                 max_cols)

----------------------------------------------------------------------------
(* The API caller: configuration changes, one OverlayChart call, replays *)

MaxEntries == 2     \* most chart entries of the OverlayChart call

SeriesA == [subtitle |-> "a", y |-> <<1, 2>>]
SeriesB == [subtitle |-> "b", y |-> <<3, 9>>]

\* Figures the caller holds: a line chart, a bar chart of two series, an
\* overlay figure made under the default theme, and an overlay figure of
\* that overlay made under the greyscale theme.
LineFigure == [meta |-> [type |-> "linechart", charts |-> <<SeriesA>>]]
BarFigure == [meta |-> [type |-> "barchart", charts |-> <<SeriesA, SeriesB>>]]
InnerOverlay ==
    OverlayChart(DEFAULT_THEME, THEME_DEFAULT,
                 <<[figure |-> LineFigure]>>, <<>>, NoneStr, FALSE).fig[1]
OuterOverlay ==
    OverlayChart(GREYSCALE_THEME, THEME_GREYSCALE,
                 <<[figure |-> InnerOverlay]>>, <<>>, NoneStr, FALSE).fig[1]
SimpleFigures == {LineFigure, BarFigure}
OverlayFigures == {InnerOverlay, OuterOverlay}

\* The optional keys of a chart entry: both absent, or both given.
Overrides ==
    {[z_order |-> <<>>, legend_label |-> NoneStr],
     [z_order |-> <<0>>, legend_label |-> "lbl"]}

\* A simple figure's entry names any axis, or leaves the axis to the
\* assignment and may override z-order and legend label; an overlay figure
\* as sub-chart draws nothing, so its entry takes the defaults.
NoOverride == [z_order |-> <<>>, legend_label |-> NoneStr]
ChartEntries ==
    {[figure |-> f, y_axis |-> a, z_order |-> o.z_order,
      legend_label |-> o.legend_label] :
        f \in SimpleFigures, a \in YAxis, o \in {NoOverride}}
    \cup {[figure |-> f, y_axis |-> "auto", z_order |-> o.z_order,
           legend_label |-> o.legend_label] :
        f \in SimpleFigures, o \in Overrides}
    \cup {[figure |-> f, y_axis |-> "auto", z_order |-> <<>>,
           legend_label |-> NoneStr] : f \in OverlayFigures}

BarModeArgs == {NoneStr, "stack"}

\* Arguments of update_config: a valid key, and a key no theme holds.
ConfigUpdates ==
    {[plot_bar_width |-> 4], [overlay_bar_mode |-> "stack"]}

Init ==
    /\ cfg = DEFAULT_THEME
    /\ theme = THEME_DEFAULT
    /\ \E n \in 1..MaxEntries : arg_charts \in [1..n -> ChartEntries]
    /\ arg_bar_mode \in BarModeArgs
    /\ arg_max_cols = DEFAULT_MAX_COLS
    /\ fig = <<>>
    /\ last = [op |-> "none"]
    /\ callers = <<>>
    /\ before = <<>>
    /\ chart_configs = <<>>
    /\ auto_threshold = DEFAULT_AUTO_THRESHOLD
    /\ assignments = <<>>
    /\ groups = <<>>
    /\ warnings = <<>>
    /\ range1 = <<0, 0>>
    /\ range2 = <<0, 0>>
    /\ compat = <<>>
    /\ pc = "api"

SetTheme ==
    /\ \E new_theme \in {THEME_DEFAULT, THEME_GREYSCALE, "publication"} :
          LET r == SetThemeTo(theme, new_theme)
          IN  cfg' = r.cfg /\ theme' = r.theme
    /\ last' = [op |-> "config"]
    /\ UNCHANGED <<arg_charts, arg_bar_mode, arg_max_cols, fig, pureVars, concVars>>

ResetConfig ==
    /\ cfg' = DEFAULT_THEME
    /\ last' = [op |-> "config"]
    /\ UNCHANGED <<theme, arg_charts, arg_bar_mode, arg_max_cols, fig, pureVars, concVars>>

UpdateConfig ==
    /\ \E upd \in ConfigUpdates : cfg' = UpdateConfigWith(cfg, upd)
    /\ last' = [op |-> "config"]
    /\ UNCHANGED <<theme, arg_charts, arg_bar_mode, arg_max_cols, fig, pureVars, concVars>>

CallOverlayChart ==
    /\ fig = <<>>
    /\ \E r \in {OverlayChart(cfg, theme, arg_charts, <<>>, arg_bar_mode, FALSE)} :
           /\ cfg' = r.cfg
           /\ theme' = r.theme
           /\ fig' = r.fig
           /\ last' = [op |-> "OverlayChart", status |-> r.status,
                       error |-> r.error, warnings |-> r.warnings,
                       swapped |-> r.swapped, created |-> r.created,
                       canvas |-> r.canvas]
    /\ UNCHANGED <<arg_charts, arg_bar_mode, arg_max_cols, pureVars, concVars>>

CallFigureGridLayout ==
    /\ fig # <<>>
    /\ \E r \in {FigureGridLayout(cfg, theme, <<[figure |-> fig[1]]>>,
                                  arg_max_cols)} :
           /\ cfg' = r.cfg
           /\ theme' = r.theme
           /\ last' = [op |-> "FigureGridLayout", status |-> r.status,
                       error |-> r.error, cells |-> r.cells,
                       swapped |-> r.swapped]
    /\ UNCHANGED <<arg_charts, arg_bar_mode, arg_max_cols, fig, pureVars, concVars>>

Next ==
    \/ SetTheme
    \/ ResetConfig
    \/ UpdateConfig
    \/ CallOverlayChart
    \/ CallFigureGridLayout

Spec == Init /\ [][Next]_vars

----------------------------------------------------------------------------
(* The caller of OverlayChart and FigureGridLayout with arbitrary chart    *)
(* entries: valid ones, with and without layout_spec, and invalid ones.    *)

MaxArgs == 3        \* most chart entries of one call
MaxCols == 3        \* largest max_cols argument

\* A matplotlib figure no chart function made, and figures whose
\* _chart_metadata lacks a key or names a chart type nothing plots.
BareFigure == [size |-> "default"]
NoTypeFigure == [meta |-> [charts |-> <<SeriesA>>]]
NoChartsFigure == [meta |-> [type |-> "linechart"]]
UnknownTypeFigure == [meta |-> [type |-> "piechart", charts |-> <<SeriesA>>]]
InvalidFigures == {BareFigure, NoTypeFigure, NoChartsFigure, UnknownTypeFigure}

\* layout_spec arguments: two complete ones and one without "colspan".
CompleteSpecs ==
    {[row |-> 0, col |-> 0, rowspan |-> 1, colspan |-> 1],
     [row |-> 1, col |-> 0, rowspan |-> 1, colspan |-> 2]}
IncompleteSpecs == {[row |-> 0, col |-> 0, rowspan |-> 1]}

ArgEntries ==
    {[figure |-> LineFigure]}
    \cup {[figure |-> LineFigure, layout_spec |-> sp] :
             sp \in CompleteSpecs \cup IncompleteSpecs}
    \cup {[figure |-> f] : f \in InvalidFigures}
    \cup {[y_axis |-> "auto"]}

InitArgs ==
    /\ cfg = DEFAULT_THEME
    /\ theme = THEME_DEFAULT
    /\ \E n \in 0..MaxArgs : arg_charts \in [1..n -> ArgEntries]
    /\ arg_bar_mode = NoneStr
    /\ arg_max_cols \in 1..MaxCols
    /\ fig = <<>>
    /\ last = [op |-> "none"]
    /\ callers = <<>>
    /\ before = <<>>
    /\ chart_configs = <<>>
    /\ auto_threshold = DEFAULT_AUTO_THRESHOLD
    /\ assignments = <<>>
    /\ groups = <<>>
    /\ warnings = <<>>
    /\ range1 = <<0, 0>>
    /\ range2 = <<0, 0>>
    /\ compat = <<>>
    /\ pc = "args"

CallFigureGridLayoutArgs ==
    /\ \E r \in {FigureGridLayout(cfg, theme, arg_charts, arg_max_cols)} :
           /\ cfg' = r.cfg
           /\ theme' = r.theme
           /\ last' = [op |-> "FigureGridLayout", status |-> r.status,
                       error |-> r.error, cells |-> r.cells,
                       swapped |-> r.swapped, layout |-> r.layout,
                       nrows |-> r.nrows, ncols |-> r.ncols,
                       axes |-> r.axes, hidden |-> r.hidden]
    /\ UNCHANGED <<arg_charts, arg_bar_mode, arg_max_cols, fig, pureVars, concVars>>

NextArgs ==
    \/ CallOverlayChart
    \/ CallFigureGridLayoutArgs

SpecArgs == InitArgs /\ [][NextArgs]_vars

----------------------------------------------------------------------------
(* The bar renderer on bar charts of one to MaxSeries series, and           *)
(* OverlayChart on several separate bar-chart figures of one series each.   *)

MaxSeries == 3          \* most series of one bar chart
MaxBarFigures == 3      \* most separate bar-chart figures of one call

\* The y values of a bar series, one per category.
BarData == {<<1, 2>>, <<3, 9>>, <<0, 4, 1>>}

BarSeries == {[subtitle |-> "s", y |-> y] : y \in BarData}

BarChartFigure(chart_list) ==
    [meta |-> [type |-> "barchart", charts |-> chart_list]]

\* One bar chart of up to MaxSeries series, or two to MaxBarFigures bar
\* charts of one series each.
BarCalls ==
    {<<[figure |-> BarChartFigure(cl)]>> :
        cl \in UNION {[1..k -> BarSeries] : k \in 1..MaxSeries}}
    \cup {[i \in 1..Len(ss) |-> [figure |-> BarChartFigure(<<ss[i]>>)]] :
             ss \in UNION {[1..n -> BarSeries] : n \in 2..MaxBarFigures}}

\* bar_mode arguments: absent, the three modes, and an invalid one.
AllBarModeArgs == {NoneStr, "group", "stack", "overlay", "sideways"}

InitBars ==
    /\ cfg \in {DEFAULT_THEME, [DEFAULT_THEME EXCEPT !.plot_bar_width = 4]}
    /\ theme = THEME_DEFAULT
    /\ arg_charts \in BarCalls
    /\ arg_bar_mode \in AllBarModeArgs
    /\ arg_max_cols = DEFAULT_MAX_COLS
    /\ fig = <<>>
    /\ last = [op |-> "none"]
    /\ callers = <<>>
    /\ before = <<>>
    /\ chart_configs = <<>>
    /\ auto_threshold = DEFAULT_AUTO_THRESHOLD
    /\ assignments = <<>>
    /\ groups = <<>>
    /\ warnings = <<>>
    /\ range1 = <<0, 0>>
    /\ range2 = <<0, 0>>
    /\ compat = <<>>
    /\ pc = "bars"

\* _plot_bar_on_axis on the series of the first figure, at the default
\* z-order of bar charts and without a legend label.
CallPlotBarOnAxis ==
    /\ \E r \in {PlotBarOnAxis(cfg, arg_charts[1].figure.meta.charts,
                               ConfigGet(cfg, "overlay_default_zorder_bar", 1),
                               NoneStr, arg_bar_mode)} :
           last' = [op |-> "_plot_bar_on_axis", raised |-> r.raised,
                    drawn |-> r.drawn]
    /\ UNCHANGED <<cfg, theme, arg_charts, arg_bar_mode, arg_max_cols, fig,
                   pureVars, concVars>>

NextBars ==
    \/ CallPlotBarOnAxis
    \/ CallOverlayChart

SpecBars == InitBars /\ [][NextBars]_vars

----------------------------------------------------------------------------
(* The caller of OverlayChart with charts of the four overlay chart types  *)
(* on named axes, with and without the optional bindings, and with and     *)
(* without a legend.                                                       *)

MaxRender == 2      \* most chart entries of one call

\* A scatter chart, a scatter chart with hue data of two values, a
\* histogram, and a line chart whose series has no subtitle.
ScatterFigure == [meta |-> [type |-> "scatterchart", charts |-> <<SeriesB>>]]
HueScatterFigure ==
    [meta |-> [type |-> "scatterchart",
               charts |-> <<[subtitle |-> "h", y |-> <<1, 2, 4>>,
                             hue |-> <<7, 5, 7>>]>>]]
HistFigure == [meta |-> [type |-> "histogram", charts |-> <<SeriesA, SeriesB>>]]
UnlabelledFigure == [meta |-> [type |-> "linechart", charts |-> <<[y |-> <<1, 2>>]>>]]

RenderFigures ==
    {LineFigure, BarFigure, ScatterFigure, HueScatterFigure, HistFigure,
     UnlabelledFigure}

RenderEntries ==
    {[figure |-> f, y_axis |-> a] : f \in RenderFigures, a \in {"left", "right"}}
    \cup {[figure |-> f, y_axis |-> a, z_order |-> <<0>>, legend_label |-> "lbl"] :
             f \in RenderFigures, a \in {"left", "right"}}

InitRender ==
    /\ cfg = DEFAULT_THEME
    /\ theme = THEME_DEFAULT
    /\ \E n \in 1..MaxRender : arg_charts \in [1..n -> RenderEntries]
    /\ arg_bar_mode = NoneStr
    /\ arg_max_cols = DEFAULT_MAX_COLS
    /\ fig = <<>>
    /\ last = [op |-> "none"]
    /\ callers = <<>>
    /\ before = <<>>
    /\ chart_configs = <<>>
    /\ auto_threshold = DEFAULT_AUTO_THRESHOLD
    /\ assignments = <<>>
    /\ groups = <<>>
    /\ warnings = <<>>
    /\ range1 = <<0, 0>>
    /\ range2 = <<0, 0>>
    /\ compat = <<>>
    /\ pc = "render"

\* OverlayChart(charts, show_legend=True)
CallOverlayChartLegend ==
    /\ fig = <<>>
    /\ \E r \in {OverlayChart(cfg, theme, arg_charts, <<>>, arg_bar_mode, TRUE)} :
           /\ cfg' = r.cfg
           /\ theme' = r.theme
           /\ fig' = r.fig
           /\ last' = [op |-> "OverlayChart", status |-> r.status,
                       error |-> r.error, warnings |-> r.warnings,
                       swapped |-> r.swapped, created |-> r.created,
                       canvas |-> r.canvas]
    /\ UNCHANGED <<arg_charts, arg_bar_mode, arg_max_cols, pureVars, concVars>>

NextRender ==
    \/ CallOverlayChart
    \/ CallOverlayChartLegend

SpecRender == InitRender /\ [][NextRender]_vars

----------------------------------------------------------------------------
(* A caller of _get_data_range on the metadata of one figure *)

MaxRangeSeries == 2

RangeValues == {-1, 2, 5}

\* The value-axis data a series can hold: up to two values, <<>> for missing
\* or empty data.
RangeData == UNION {[1..n -> RangeValues] : n \in 0..2}

RangeTypes == {"linechart", "barchart", "scatterchart", "histogram"}

RangeFigures ==
    UNION {{[meta |-> [type |-> t,
                       charts |-> [k \in 1..n |-> [subtitle |-> "s", y |-> ys[k]]]]] :
               t \in RangeTypes, ys \in [1..n -> RangeData]} :
           n \in 1..MaxRangeSeries}

InitRange ==
    /\ cfg = DEFAULT_THEME
    /\ theme = THEME_DEFAULT
    /\ arg_charts = <<>>
    /\ arg_bar_mode = NoneStr
    /\ arg_max_cols = DEFAULT_MAX_COLS
    /\ \E f \in RangeFigures : fig = <<f>>
    /\ last = [op |-> "none"]
    /\ callers = <<>>
    /\ before = <<>>
    /\ chart_configs = <<>>
    /\ auto_threshold = DEFAULT_AUTO_THRESHOLD
    /\ assignments = <<>>
    /\ groups = <<>>
    /\ warnings = <<>>
    /\ range1 = <<0, 0>>
    /\ range2 = <<0, 0>>
    /\ compat = <<>>
    /\ pc = "range"

\* data_range = _get_data_range(_extract_chart_data(figure))
CallGetDataRange ==
    /\ pc = "range"
    /\ \E e \in {ExtractChartData(fig[1])} :
           /\ e.ok
           /\ \E r \in {GetDataRange(e.chart_data)} :
                  /\ range1' = r
                  /\ last' = [op |-> "_get_data_range", status |-> "ok",
                              data_range |-> r]
    /\ pc' = "ranged"
    /\ UNCHANGED <<cfg, theme, chart_configs, auto_threshold, assignments,
                   groups, warnings, range2, compat, arg_charts, arg_bar_mode,
                   arg_max_cols, fig, concVars>>

NextRange == CallGetDataRange

SpecRange == InitRange /\ [][NextRange]_vars

----------------------------------------------------------------------------
(* Concurrent callers of _plot_chart_on_axis on the shared configuration.  *)
(* Each statement that reads or writes config.config or config.theme is a  *)
(* step of its own; the threads are interleaved between statements.        *)

NumCallers == 2     \* threads inside _plot_chart_on_axis at the same time

Threads == 1..NumCallers

\* The figures whose data the threads plot: one without a snapshot, and the
\* two overlay figures, which carry the snapshot of their creation.
ThreadFigures == {LineFigure} \cup OverlayFigures

HasSnapshot(t) == "config_snapshot" \in DOMAIN callers[t].chart_data.metadata

InitConc ==
    /\ \E new_theme \in {THEME_DEFAULT, THEME_GREYSCALE} :
          LET r == SetThemeTo(THEME_DEFAULT, new_theme)
          IN  cfg = r.cfg /\ theme = r.theme
    /\ before = <<[cfg |-> cfg, theme |-> theme]>>
    /\ \E figs \in [Threads -> ThreadFigures] :
          callers = [t \in Threads |->
                       [pc |-> "save_config",
                        chart_data |-> ExtractChartData(figs[t]).chart_data,
                        original_config |-> <<>>,
                        original_theme |-> NoneStr,
                        raised |-> FALSE]]
    /\ arg_charts = <<>>
    /\ arg_bar_mode = NoneStr
    /\ arg_max_cols = DEFAULT_MAX_COLS
    /\ fig = <<>>
    /\ last = [op |-> "none"]
    /\ chart_configs = <<>>
    /\ auto_threshold = DEFAULT_AUTO_THRESHOLD
    /\ assignments = <<>>
    /\ groups = <<>>
    /\ warnings = <<>>
    /\ range1 = <<0, 0>>
    /\ range2 = <<0, 0>>
    /\ compat = <<>>
    /\ pc = "threads"

\* original_config = config.config.copy()
SaveConfig(t) ==
    /\ callers[t].pc = "save_config"
    /\ callers' = [callers EXCEPT ![t].original_config = <<cfg>>,
                                  ![t].pc = "save_theme"]
    /\ UNCHANGED <<cfg, theme, before, pureVars, apiVars>>

\* original_theme = config.theme
SaveTheme(t) ==
    /\ callers[t].pc = "save_theme"
    /\ callers' = [callers EXCEPT ![t].original_theme = theme,
                                  ![t].pc = "swap_config"]
    /\ UNCHANGED <<cfg, theme, before, pureVars, apiVars>>

\* if "config_snapshot" in metadata: config.config = snapshot.copy()
SwapConfig(t) ==
    /\ callers[t].pc = "swap_config"
    /\ cfg' = SwappedConfig(cfg, callers[t].chart_data.metadata)
    /\ callers' = [callers EXCEPT ![t].pc =
                      IF HasSnapshot(t) THEN "swap_theme" ELSE "render"]
    /\ UNCHANGED <<theme, before, pureVars, apiVars>>

\* if "theme" in metadata: config.theme = metadata["theme"]
SwapTheme(t) ==
    /\ callers[t].pc = "swap_theme"
    /\ theme' = SwappedTheme(theme, callers[t].chart_data.metadata)
    /\ callers' = [callers EXCEPT ![t].pc = "render"]
    /\ UNCHANGED <<cfg, before, pureVars, apiVars>>

\* The try block: it reads the configuration in effect when it runs, and
\* leaves for the finally block whether it raised or not.
Render(t) ==
    /\ callers[t].pc = "render"
    /\ callers' = [callers EXCEPT
                     ![t].raised = RenderUnder(cfg, callers[t].chart_data,
                                               <<>>, NoneStr, NoneStr).raised,
                     ![t].pc = "restore_config"]
    /\ UNCHANGED <<cfg, theme, before, pureVars, apiVars>>

\* finally: config.config = original_config
RestoreConfigSkipped(t) ==
    /\ callers[t].pc = "restore_config"
    /\ cfg' = cfg
    /\ callers' = [callers EXCEPT ![t].pc = "restore_theme"]
    /\ UNCHANGED <<theme, before, pureVars, apiVars>>

RestoreConfig(t) ==
    /\ callers[t].pc = "restore_config"
    /\ cfg' = callers[t].original_config[1]
    /\ callers' = [callers EXCEPT ![t].pc = "restore_theme"]
    /\ UNCHANGED <<theme, before, pureVars, apiVars>>

\* finally: config.theme = original_theme; the call returns, or raises
RestoreTheme(t) ==
    /\ callers[t].pc = "restore_theme"
    /\ theme' = callers[t].original_theme
    /\ callers' = [callers EXCEPT ![t].pc = "done"]
    /\ UNCHANGED <<cfg, before, pureVars, apiVars>>

NextConc ==
    \E t \in Threads :
        \/ SaveConfig(t)
        \/ SaveTheme(t)
        \/ SwapConfig(t)
        \/ SwapTheme(t)
        \/ Render(t)
        \/ RestoreConfig(t)
        \/ RestoreTheme(t)

SpecConc == InitConc /\ [][NextConc]_vars

----------------------------------------------------------------------------
(* Properties of _determine_axis_assignment, checked under SpecAssign *)

NumCharts == Len(chart_configs)
AllAuto == \A i \in 1..NumCharts : chart_configs[i].y_axis = "auto"
SpanOf(r) == r[2] - r[1]
PairwiseCompatible ==
    \A i, j \in 1..NumCharts :
        i # j => ScaleCompatible(chart_configs[i].data_range,
                                 chart_configs[j].data_range, auto_threshold)

\* C1: when every binding is auto and the ranges of all charts are pairwise
\* compatible under the threshold, every chart is assigned to the left axis,
\* so no right axis is needed.
C1_AllCompatibleAllLeft ==
    (pc = "assigned" /\ AllAuto /\ PairwiseCompatible)
        => \A i \in 1..NumCharts : assignments[i] = "left"

\* Two or more auto charts with different non-degenerate, compatible spans
\* were assigned, all of them to the left axis.
C1_Witness ==
    /\ pc = "assigned" /\ AllAuto /\ PairwiseCompatible
    /\ NumCharts >= 2
    /\ \A i \in 1..NumCharts : SpanOf(chart_configs[i].data_range) > 0
    /\ SpanOf(chart_configs[1].data_range) # SpanOf(chart_configs[2].data_range)
    /\ \A i \in 1..NumCharts : assignments[i] = "left"

\* C2: when every binding is auto, the clusters are ordered by member count
\* descending, clusters of equal size in discovery order (the order of their
\* first members); the charts of the second cluster are assigned right and
\* all other charts left; one warning is issued iff there are more than two
\* clusters, none otherwise.
C2_ClusterPolicy ==
    (pc = "assigned" /\ AllAuto) =>
        /\ \A a, b \in 1..Len(groups) :
              a < b => \/ Len(groups[a]) > Len(groups[b])
                       \/ /\ Len(groups[a]) = Len(groups[b])
                          /\ groups[a][1] < groups[b][1]
        /\ \A i \in 1..NumCharts :
              \E a \in 1..Len(groups) :
                  /\ i \in SeqRange(groups[a])
                  /\ assignments[i] = (IF a = 2 THEN "right" ELSE "left")
        /\ Len(warnings) = (IF Len(groups) > 2 THEN 1 ELSE 0)
        /\ \A k \in 1..Len(warnings) : warnings[k].kind = "groups"

\* Three auto charts fell into more than two clusters: the second cluster
\* went right, the third was folded onto the left axis with one warning.
C2_Witness ==
    /\ pc = "assigned" /\ AllAuto
    /\ Len(groups) > 2
    /\ Len(warnings) = 1
    /\ \A i \in SeqRange(groups[2]) : assignments[i] = "right"
    /\ \A i \in SeqRange(groups[3]) : assignments[i] = "left"

HasExplicit == \E i \in 1..NumCharts : chart_configs[i].y_axis \in {"left", "right"}

\* C3: in the explicit/mixed policy every chart bound to left or right is
\* assigned exactly that axis, whatever the ranges and the other charts.
C3_ExplicitHonoured ==
    (pc = "assigned" /\ HasExplicit) =>
        \A i \in 1..NumCharts :
            chart_configs[i].y_axis \in {"left", "right"}
                => assignments[i] = chart_configs[i].y_axis

\* A mixed call: chart 1 is bound right although chart 2, bound left, has a
\* range compatible with it, and an auto chart is present as well.
C3_Witness ==
    /\ pc = "assigned"
    /\ NumCharts >= 3
    /\ chart_configs[1].y_axis = "right" /\ assignments[1] = "right"
    /\ chart_configs[2].y_axis = "left" /\ assignments[2] = "left"
    /\ chart_configs[3].y_axis = "auto"
    /\ SpanOf(chart_configs[1].data_range) > 0
    /\ chart_configs[1].data_range = chart_configs[2].data_range

Compatible(i, j) ==
    ScaleCompatible(chart_configs[i].data_range, chart_configs[j].data_range,
                    auto_threshold)

\* C26: in the explicit/mixed policy an auto chart at index 0 is assigned
\* left; an auto chart at a later index is assigned left iff its range is
\* compatible with the range of at least one earlier chart assigned left, and
\* right otherwise, whatever the charts on the right axis are.
C26_SequentialPlacement ==
    (pc = "assigned" /\ HasExplicit) =>
        \A i \in 1..NumCharts :
            chart_configs[i].y_axis = "auto" =>
                /\ i = 1 => assignments[i] = "left"
                /\ i > 1 =>
                      (assignments[i] = "left"
                          <=> \E j \in 1..(i - 1) : /\ assignments[j] = "left"
                                                    /\ Compatible(i, j))
                /\ assignments[i] \in {"left", "right"}

\* A mixed call in which an auto chart follows a right chart of a compatible
\* range and a left chart of an incompatible range, and is assigned right.
C26_Witness ==
    /\ pc = "assigned"
    /\ NumCharts = 3
    /\ chart_configs[1].y_axis = "right"
    /\ chart_configs[2].y_axis = "left"
    /\ chart_configs[3].y_axis = "auto"
    /\ SpanOf(chart_configs[3].data_range) > 0
    /\ Compatible(3, 1)
    /\ ~Compatible(3, 2)
    /\ assignments[3] = "right"

WarningsOn(axis) == {k \in 1..Len(warnings) : warnings[k].kind = axis}

IncompatiblePairOn(axis) ==
    \E i, j \in 1..NumCharts :
        /\ i < j
        /\ assignments[i] = axis /\ assignments[j] = axis
        /\ ~Compatible(i, j)

\* C27: in the explicit/mixed policy each axis is scanned on its own after
\* placement: a warning is emitted for an axis iff some two charts on it have
\* incompatible ranges, at most one warning is emitted per axis per call, and
\* the assignments returned are those of the placement, warning or not.
C27_OneWarningPerAxis ==
    (pc = "assigned" /\ HasExplicit) =>
        /\ \A axis \in {"left", "right"} :
              /\ WarningsOn(axis) # {} <=> IncompatiblePairOn(axis)
              /\ Cardinality(WarningsOn(axis)) <= 1
        /\ \A k \in 1..Len(warnings) : warnings[k].kind \in {"left", "right"}
        /\ assignments = SequentialAssign(chart_configs, auto_threshold, <<>>)

GroupOf(i) == CHOOSE a \in 1..Len(groups) : i \in SeqRange(groups[a])

LeftCount == Cardinality({i \in 1..NumCharts : assignments[i] = "left"})
RightCount == Cardinality({i \in 1..NumCharts : assignments[i] = "right"})

\* C30: when every binding is auto, at least one chart is assigned left and
\* at least as many charts are assigned left as right.
C30_LeftMajority ==
    (pc = "assigned" /\ AllAuto) =>
        /\ LeftCount >= 1
        /\ LeftCount >= RightCount
        /\ LeftCount + RightCount = NumCharts

\* Three auto charts in three clusters of one chart each: one went right,
\* the two others left.
C30_Witness ==
    /\ pc = "assigned" /\ AllAuto
    /\ NumCharts = 3
    /\ Len(groups) = 3
    /\ RightCount = 1
    /\ LeftCount = 2

----------------------------------------------------------------------------
(* Properties of _scale_compatible, checked under SpecCompat *)

HasCall(tag) == \E k \in 1..Len(compat) : compat[k].call = tag
ResultOf(tag) == compat[CHOOSE k \in 1..Len(compat) : compat[k].call = tag].result

\* C4: _scale_compatible returns True whenever one of the two spans is zero,
\* and otherwise returns True exactly when the larger span divided by the
\* smaller one is strictly below the threshold.
C4_CompatibleDefinition ==
    \A k \in 1..Len(compat) :
        LET s1 == SpanOf(compat[k].r1)
            s2 == SpanOf(compat[k].r2)
            big == IF s1 >= s2 THEN s1 ELSE s2
            small == IF s1 >= s2 THEN s2 ELSE s1
        IN  /\ (s1 = 0 \/ s2 = 0) => compat[k].result = TRUE
            /\ (s1 # 0 /\ s2 # 0) =>
                  (compat[k].result = TRUE
                      <=> big * auto_threshold[2] < auto_threshold[1] * small)

\* A call on two non-degenerate ranges whose span ratio equals the threshold
\* returned False, and a call with a degenerate range returned True.
C4_Witness ==
    /\ HasCall("12") /\ HasCall("11")
    /\ SpanOf(range1) > 0 /\ SpanOf(range2) > SpanOf(range1)
    /\ SpanOf(range2) * auto_threshold[2] = auto_threshold[1] * SpanOf(range1)
    /\ ResultOf("12") = FALSE

\* C5: compatibility is symmetric, the result does not depend on the order
\* of the two ranges.
C5_Symmetric ==
    (HasCall("12") /\ HasCall("21")) => ResultOf("12") = ResultOf("21")

\* Both orders were called on ranges of different non-zero spans and both
\* found them compatible.
C5_Witness ==
    /\ HasCall("12") /\ HasCall("21")
    /\ SpanOf(range1) > 0 /\ SpanOf(range2) > 0
    /\ SpanOf(range1) # SpanOf(range2)
    /\ ResultOf("12") = TRUE /\ ResultOf("21") = TRUE

\* C6 as claimed: every range is compatible with itself at every threshold.
C6_ReflexiveEveryThreshold ==
    HasCall("11") => ResultOf("11") = TRUE

\* C6 amended: a range is compatible with itself when the threshold is
\* above 1 or the range is degenerate.
C6_ReflexiveAboveOne ==
    (HasCall("11") /\ (auto_threshold[1] > auto_threshold[2] \/ SpanOf(range1) = 0))
        => ResultOf("11") = TRUE

\* A non-degenerate range was compared with itself at a threshold above 1,
\* and a degenerate one at a threshold of at most 1.
C6_Witness ==
    /\ HasCall("11")
    /\ SpanOf(range1) > 0
    /\ auto_threshold[1] > auto_threshold[2]
    /\ ResultOf("11") = TRUE

----------------------------------------------------------------------------
(* Properties of OverlayChart and of its replay, checked under Spec *)

\* What a canvas shows of each drawn series: its axis, its label (the legend
\* label where one was given), its z-order and its bar mode.
Drawn(canvas) ==
    [k \in 1..Len(canvas) |->
        [axis |-> canvas[k].axis, label |-> canvas[k].artist.label,
         zorder |-> canvas[k].artist.zorder, mode |-> canvas[k].artist.mode]]

Replayed == last.op = "FigureGridLayout"

\* C7: replaying the figure of a successful OverlayChart call through
\* FigureGridLayout draws the same sequence of series as the original call:
\* as many, with the same labels, axes, z-orders, legend labels and bar mode.
C7_ReplayDrawsSame ==
    Replayed =>
        /\ last.status = "ok"
        /\ Drawn(last.cells[1].canvas) = Drawn(fig[1].canvas)

\* C8: in a replay every sub-chart is rendered while the global
\* configuration equals the snapshot the OverlayChart call stored, whatever
\* the global configuration is at replay time, and the live configuration is
\* back in place afterwards.
C8_ReplayUnderSnapshot ==
    (Replayed /\ last.status = "ok") =>
        \A k \in 1..Len(last.cells[1].canvas) :
            last.cells[1].canvas[k].artist.conf = fig[1].meta.config_snapshot

\* C9: no OverlayChart or FigureGridLayout call, successful or failed,
\* changes the global configuration or the global theme: every
\* _plot_chart_on_axis call inside it restores both, also when it raises.
C9_CallsLeaveConfigUnchanged ==
    [][(CallOverlayChart \/ CallFigureGridLayout)
          => (cfg' = cfg /\ theme' = theme)]_vars

\* A call has failed in the render of a sub-chart whose greyscale snapshot
\* had been swapped in, and the default configuration is in place after it.
C9_Witness ==
    /\ last.op = "OverlayChart"
    /\ last.status = "error"
    /\ last.error = "render"
    /\ last.swapped
    /\ arg_charts[1].figure = OuterOverlay
    /\ cfg = DEFAULT_THEME
    /\ theme = THEME_DEFAULT

\* C11: OverlayChart and the replay create the right axis iff some resolved
\* assignment is right, draw the sub-charts in input order, and draw each on
\* the right axis iff its assignment is right and on the left axis
\* otherwise, so nothing is drawn on an axis that was not created.
AxisDiscipline(canvas, has_right, axis_assignments) ==
    /\ has_right <=> \E i \in 1..Len(axis_assignments) :
                        axis_assignments[i] = "right"
    /\ \A k \in 1..Len(canvas) :
          /\ canvas[k].chart \in 1..Len(axis_assignments)
          /\ canvas[k].axis = (IF axis_assignments[canvas[k].chart] = "right"
                               THEN "right" ELSE "left")
          /\ canvas[k].axis = "right" => has_right
    /\ \A k, l \in 1..Len(canvas) : k < l => canvas[k].chart <= canvas[l].chart

C11_AxesAndDrawOrder ==
    /\ fig # <<>> =>
          AxisDiscipline(fig[1].canvas, fig[1].has_right,
                         fig[1].meta.axis_assignments)
    /\ (Replayed /\ last.status = "ok") =>
          AxisDiscipline(last.cells[1].canvas, last.cells[1].has_right,
                         fig[1].meta.axis_assignments)

\* A figure with series on both axes has been replayed.
C11_Witness ==
    /\ Replayed
    /\ last.status = "ok"
    /\ last.cells[1].has_right
    /\ \E k, l \in 1..Len(last.cells[1].canvas) :
          /\ last.cells[1].canvas[k].axis = "left"
          /\ last.cells[1].canvas[l].axis = "right"


\* C12: the figure OverlayChart returns carries a descriptor of type
\* "overlay" with, in input order, one stored record (descriptor, z_order,
\* legend_label) and one resolved assignment (left or right) per input chart,
\* the bar mode used, and the global configuration and theme of the call;
\* no later configuration change or replay changes what the figure stores.
DescriptorOf(f, entries, bar_mode_arg, c, th) ==
    LET meta == f.meta
        N == Len(entries)
    IN  /\ meta.type = "overlay"
        /\ Len(meta.chart_configs) = N
        /\ Len(meta.axis_assignments) = N
        /\ \A i \in 1..N :
              /\ meta.chart_configs[i] =
                    [chart_data |-> ExtractChartData(entries[i].figure).chart_data,
                     z_order |-> entries[i].z_order,
                     legend_label |-> entries[i].legend_label]
              /\ meta.axis_assignments[i] \in {"left", "right"}
        /\ meta.bar_mode = (IF bar_mode_arg = NoneStr
                            THEN ConfigGet(c, "overlay_bar_mode", "group")
                            ELSE bar_mode_arg)
        /\ \A k \in 1..Len(f.canvas) :
              f.canvas[k].artist.kind = "bar"
                  => f.canvas[k].artist.mode = meta.bar_mode
        /\ meta.config_snapshot = c
        /\ meta.theme = th

----------------------------------------------------------------------------
(* Properties of argument validation and placement, checked under SpecArgs *)

CalledOverlay == last.op = "OverlayChart"
CalledGrid == last.op = "FigureGridLayout"

\* C13: OverlayChart and FigureGridLayout called with an empty charts list
\* raise "At least one chart is required" and return no figure.
C13_EmptyChartsRejected ==
    (arg_charts = <<>> /\ (CalledOverlay \/ CalledGrid)) =>
        /\ last.status = "error"
        /\ last.error = "At least one chart is required"
        /\ fig = <<>>
        /\ CalledGrid => last.cells = <<>>

\* FigureGridLayout has been called with an empty list.
C13_Witness ==
    /\ arg_charts = <<>>
    /\ CalledGrid
    /\ last.status = "error"

\* What is wrong with a chart entry, as OverlayChart sees it.
EntryError(e) ==
    IF "figure" \notin DOMAIN e THEN "missing 'figure' key"
    ELSE IF "meta" \notin DOMAIN e.figure THEN "Figure is missing chart metadata"
    ELSE IF "type" \notin DOMAIN e.figure.meta THEN "missing 'type'"
    ELSE IF "charts" \notin DOMAIN e.figure.meta THEN "missing 'charts'"
    ELSE NoneStr

OffendingEntries ==
    {i \in 1..Len(arg_charts) : EntryError(arg_charts[i]) # NoneStr}

\* C14: OverlayChart raises and returns no figure when an entry lacks its
\* figure, or the figure its descriptor, or the descriptor its type or
\* charts; the offending entry of lowest index decides the error, and the
\* error is raised before a canvas is created or anything is drawn.
C14_InvalidEntryRejected ==
    (CalledOverlay /\ OffendingEntries # {}) =>
        LET first == CHOOSE i \in OffendingEntries :
                        \A j \in OffendingEntries : i <= j
        IN  /\ last.status = "error"
            /\ last.error = EntryError(arg_charts[first])
            /\ fig = <<>>
            /\ ~last.created
            /\ last.canvas = <<>>

\* OverlayChart has been called with a valid entry followed by two
\* offending ones that are wrong in different ways.
C14_Witness ==
    /\ CalledOverlay
    /\ Len(arg_charts) = 3
    /\ OffendingEntries = {2, 3}
    /\ EntryError(arg_charts[2]) # EntryError(arg_charts[3])

UnrecognizedEntries ==
    {i \in 1..Len(arg_charts) :
        /\ EntryError(arg_charts[i]) = NoneStr
        /\ arg_charts[i].figure.meta.type \notin CHART_PLOTTERS \cup {"overlay"}}

\* C15: a figure whose descriptor names an unrecognized chart type is a
\* fatal error: OverlayChart and FigureGridLayout raise and return no
\* figure, they do not skip the chart.
C15_UnknownTypeFatal ==
    ((CalledOverlay \/ CalledGrid) /\ UnrecognizedEntries # {}) =>
        /\ last.status = "error"
        /\ CalledOverlay => fig = <<>>

Supplied == {i \in 1..Len(arg_charts) : "layout_spec" \in DOMAIN arg_charts[i]}

Incomplete ==
    {i \in Supplied :
        ~({"row", "col", "rowspan", "colspan"}
              \subseteq DOMAIN arg_charts[i].layout_spec)}

C17_AutoPlacement ==
    (CalledGrid /\ last.status = "ok" /\ last.layout = "auto") =>
        LET n == Len(arg_charts)
        IN  /\ last.nrows * arg_max_cols >= n
            /\ (last.nrows - 1) * arg_max_cols < n
            /\ last.ncols = (IF arg_max_cols < n THEN arg_max_cols ELSE n)
            /\ last.ncols <= arg_max_cols
            /\ Len(last.axes) = last.nrows * last.ncols
            /\ Len(last.cells) = n
            /\ \A i \in 0..(n - 1) :
                  /\ last.axes[i + 1].row = i \div last.ncols
                  /\ last.axes[i + 1].col = i % last.ncols
                  /\ last.axes[i + 1].row < last.nrows
            /\ \A i, j \in 1..n :
                  i # j => <<last.axes[i].row, last.axes[i].col>>
                              # <<last.axes[j].row, last.axes[j].col>>
            /\ last.hidden = {k \in 1..Len(last.axes) : k > n}

\* Three charts have been placed with max_cols = 2: two rows, one hidden cell.
C17_Witness ==
    /\ CalledGrid
    /\ last.status = "ok"
    /\ last.layout = "auto"
    /\ Len(arg_charts) = 3
    /\ arg_max_cols = 2
    /\ last.hidden # {}

----------------------------------------------------------------------------
(* Properties of the bar modes, checked under SpecBars *)

CalledBars == last.op = "_plot_bar_on_axis"

\* The series handed to _plot_bar_on_axis, and those of one category count.
BarCharts == arg_charts[1].figure.meta.charts
SameCategories == \A k \in 1..Len(BarCharts) : Len(BarCharts[k].y) = Len(BarCharts[1].y)

\* The mode _plot_bar_on_axis works in for the bar_mode argument.
ModeInUse ==
    IF arg_bar_mode \in {"stack", "overlay"} THEN arg_bar_mode ELSE "group"

\* The sum of the values of the first k series at category cat.
RECURSIVE CategorySum(_, _)
CategorySum(k, cat) ==
    IF k = 0 THEN 0 ELSE CategorySum(k - 1, cat) + BarCharts[k].y[cat]

\* C18: in stack mode, series k of K bar series over the same categories is
\* drawn from a baseline equal to the per-category sum of series 1..k-1, so
\* the top of the K-th bar is the sum of all K values; all series are drawn
\* at the same x position with the full configured width.
C18_StackBaselines ==
    (CalledBars /\ ModeInUse = "stack" /\ SameCategories) =>
        /\ ~last.raised
        /\ Len(last.drawn) = Len(BarCharts)
        /\ \A k \in 1..Len(BarCharts) :
              LET bar == last.drawn[k]
              IN  /\ bar.y = BarCharts[k].y
                  /\ Len(bar.bottom) = Len(bar.y)
                  /\ \A cat \in 1..Len(bar.y) :
                        /\ bar.bottom[cat] = CategorySum(k - 1, cat)
                        /\ bar.bottom[cat] + bar.y[cat] = CategorySum(k, cat)
                  /\ bar.x_offset[1] = 0
                  /\ bar.width[1] = cfg.plot_bar_width * bar.width[2]

\* Three series over the same categories have been stacked.
C18_Witness ==
    /\ CalledBars
    /\ ModeInUse = "stack"
    /\ SameCategories
    /\ Len(BarCharts) = 3
    /\ Len(last.drawn) = 3
    /\ \E cat \in 1..2 : last.drawn[3].bottom[cat] > last.drawn[2].bottom[cat]

\* C19: in group mode each of K bar series is drawn with the configured bar
\* width divided by K, at an offset of its index times that width: the K
\* bars of a category are adjacent slices that do not overlap and together
\* are as wide as the configured bar width, for every K >= 1.
C19_GroupSlices ==
    (CalledBars /\ ModeInUse = "group") =>
        LET K == Len(BarCharts)
        IN  /\ ~last.raised
            /\ Len(last.drawn) = K
            /\ \A k \in 1..K :
                  LET bar == last.drawn[k]
                  IN  /\ bar.width[1] * K = cfg.plot_bar_width * bar.width[2]
                      /\ bar.x_offset[1] * bar.width[2]
                            = (k - 1) * bar.width[1] * bar.x_offset[2]
            /\ \A k \in 1..(K - 1) :
                  LET bar == last.drawn[k]
                      next == last.drawn[k + 1]
                  IN  \* the right edge of slice k is the left edge of slice k+1
                      (bar.x_offset[1] * bar.width[2]
                          + bar.width[1] * bar.x_offset[2]) * next.x_offset[2]
                      = next.x_offset[1] * bar.x_offset[2] * bar.width[2]

\* Three series have been drawn in group mode.
C19_Witness ==
    /\ CalledBars
    /\ ModeInUse = "group"
    /\ Len(BarCharts) = 3
    /\ Len(last.drawn) = 3
    /\ last.drawn[3].x_offset[1] > 0

\* C20: when OverlayChart overlays K >= 2 separate bar-chart figures in
\* group mode, the bars of figure i get the configured bar width divided by
\* K and are offset by the index of the figure among the bar charts, so bars
\* of different figures sit side by side and do not overlap.
C20_SeparateBarFiguresSideBySide ==
    (CalledOverlay /\ last.status = "ok" /\ ModeInUse = "group"
        /\ Len(arg_charts) >= 2) =>
        LET K == Len(arg_charts)
        IN  \A a \in 1..Len(fig[1].canvas) :
                LET bar == fig[1].canvas[a].artist
                    i == fig[1].canvas[a].chart
                IN  /\ bar.width[1] * K = cfg.plot_bar_width * bar.width[2]
                    /\ bar.x_offset[1] * bar.width[2]
                          = (i - 1) * bar.width[1] * bar.x_offset[2]

----------------------------------------------------------------------------
(* Properties of legends, labels and z-order, checked under SpecRender *)

\* The figure OverlayChart returned and what the call drew.
OnCanvas == fig[1].canvas
Returned == CalledOverlay /\ last.status = "ok" /\ fig # <<>>

\* The artists on one axis that carry a label, in drawing order.
RECURSIVE LabelledOn(_, _)
LabelledOn(axis, k) ==
    IF k > Len(OnCanvas) THEN <<>>
    ELSE (IF OnCanvas[k].axis = axis /\ OnCanvas[k].artist.label # NoneStr
          THEN <<k>> ELSE <<>>) \o LabelledOn(axis, k + 1)

\* The label the legend shows for the artist at position k of the canvas.
LegendLabelOf(k) ==
    IF fig[1].has_right
    THEN OnCanvas[k].artist.label
            \o (IF OnCanvas[k].axis = "left" THEN " (L)" ELSE " (R)")
    ELSE OnCanvas[k].artist.label

\* What all readings of the claim share: a legend only when asked for and
\* when some artist carries a label, on the left axis, with one entry per
\* labelled artist, labelled by its label and its axis.
LegendBasics ==
    LET f == fig[1]
        all == LabelledOn("left", 1) \o LabelledOn("right", 1)
    IN  /\ Len(f.legend) <= 1
        /\ f.legend # <<>> <=> (f.meta.show_legend /\ all # <<>>)
        /\ f.legend # <<>> =>
              /\ f.legend[1].axis = "left"
              /\ Len(f.legend[1].handles) = Len(all)
              /\ Len(f.legend[1].labels) = Len(all)
              /\ SeqRange(f.legend[1].handles) = SeqRange(all)
              /\ \A k \in 1..Len(all) :
                    f.legend[1].labels[k] = LegendLabelOf(f.legend[1].handles[k])

\* C21 as claimed: the legend lists the left-axis entries, then the
\* right-axis entries, each group in drawing order.
C21_LegendInDrawingOrder ==
    Returned =>
        /\ LegendBasics
        /\ fig[1].legend # <<>> =>
              fig[1].legend[1].handles
                  = LabelledOn("left", 1) \o LabelledOn("right", 1)

\* C21, amended: _combine_legends installs at most one legend, always on the
\* left axis, whose entries are all left-axis entries followed by all
\* right-axis entries; within a group the entries of bar series come after
\* those of all other series, and otherwise the entries keep their drawing
\* order; labels are suffixed " (L)" and " (R)" iff a right axis exists; when
\* no axis has a handle no legend is installed and no error is raised.
C21_LegendByAxisThenKind ==
    Returned =>
        /\ LegendBasics
        /\ fig[1].legend # <<>> =>
              LET h == fig[1].legend[1].handles
                  IsBar(k) == OnCanvas[k].artist.kind = "bar"
              IN  \A i, j \in 1..Len(h) :
                      i < j =>
                          /\ ~(OnCanvas[h[i]].axis = "right" /\ OnCanvas[h[j]].axis = "left")
                          /\ OnCanvas[h[i]].axis = OnCanvas[h[j]].axis =>
                                /\ ~(IsBar(h[i]) /\ ~IsBar(h[j]))
                                /\ IsBar(h[i]) = IsBar(h[j]) => h[i] < h[j]

\* A legend of three or more entries has been installed for two axes, with
\* entries from the left and from the right axis.
C21_Witness ==
    /\ Returned
    /\ fig[1].has_right
    /\ fig[1].legend # <<>>
    /\ Len(fig[1].legend[1].labels) >= 3
    /\ \E i, j \in 1..Len(fig[1].legend[1].handles) :
          /\ OnCanvas[fig[1].legend[1].handles[i]].axis = "left"
          /\ OnCanvas[fig[1].legend[1].handles[j]].axis = "right"

\* The labels of the artists drawn for chart entry i, in drawing order.
RECURSIVE LabelsOfChart(_, _)
LabelsOfChart(i, k) ==
    IF k > Len(OnCanvas) THEN <<>>
    ELSE (IF OnCanvas[k].chart = i THEN <<OnCanvas[k].artist.label>> ELSE <<>>)
         \o LabelsOfChart(i, k + 1)

\* The series of chart entry i and their subtitles (None for a series
\* without one); every series of the figures at hand has data.
SeriesOf(i) == arg_charts[i].figure.meta.charts
SubtitlesOf(i) ==
    [k \in 1..Len(SeriesOf(i)) |->
        IF "subtitle" \in DOMAIN SeriesOf(i)[k] THEN SeriesOf(i)[k].subtitle
        ELSE NoneStr]

\* Entry i labels its series as the claim says: all with legend_label when
\* the binding supplies it, each with its subtitle otherwise.
LabelledAsBound(i) ==
    LET labels == LabelsOfChart(i, 1)
    IN  IF "legend_label" \in DOMAIN arg_charts[i]
        THEN /\ Len(labels) = Len(SeriesOf(i))
             /\ \A k \in 1..Len(labels) : labels[k] = arg_charts[i].legend_label
        ELSE labels = SubtitlesOf(i)

HasHue(i) == \E k \in 1..Len(SeriesOf(i)) : "hue" \in DOMAIN SeriesOf(i)[k]

\* C22 as claimed: when a binding supplies legend_label, every series drawn
\* for that sub-chart, whatever its chart type, is labelled with it; when
\* it is absent each series is labelled with its subtitle.
C22_LabelOverride ==
    Returned => \A i \in 1..Len(arg_charts) : LabelledAsBound(i)

\* C22, amended: the same for every series without hue data; a scatter
\* series with hue data is drawn as one group per distinct hue value, in
\* increasing order of the values, each labelled with its hue value whether
\* or not the binding supplies legend_label.
C22_LabelOverrideExceptHue ==
    Returned =>
        \A i \in 1..Len(arg_charts) :
            IF HasHue(i)
            THEN LET hue == SeriesOf(i)[1].hue
                     labels == LabelsOfChart(i, 1)
                 IN  /\ Len(SeriesOf(i)) = 1
                     /\ Len(labels) = Cardinality({hue[k] : k \in 1..Len(hue)})
                     /\ \A k \in 1..Len(labels) :
                           \E v \in {hue[m] : m \in 1..Len(hue)} :
                               /\ labels[k] = ToString(v)
                               /\ Cardinality({w \in {hue[m] : m \in 1..Len(hue)} :
                                                  w < v}) = k - 1
            ELSE LabelledAsBound(i)

\* A bar chart of two series and a scatter chart with hue data have been
\* drawn, both bound with a legend_label.
C22_Witness ==
    /\ Returned
    /\ Len(arg_charts) = 2
    /\ \A i \in 1..2 : "legend_label" \in DOMAIN arg_charts[i]
    /\ \E i \in 1..2 : HasHue(i)
    /\ \E i \in 1..2 : Len(SeriesOf(i)) = 2 /\ Len(LabelsOfChart(i, 1)) = 2

\* The chart type of entry i.
TypeOf(i) == arg_charts[i].figure.meta.type

\* C23: when a binding omits z_order, bar and histogram sub-charts are drawn
\* with z-order 1 and line and scatter sub-charts with z-order 2, so the
\* former lie strictly below the latter; when z_order is supplied, also
\* when it is 0, the sub-chart's series are drawn with exactly that z-order.
C23_ZOrder ==
    Returned =>
        /\ \A k \in 1..Len(OnCanvas) :
              LET i == OnCanvas[k].chart
                  z == OnCanvas[k].artist.zorder
              IN  IF "z_order" \in DOMAIN arg_charts[i]
                  THEN z = arg_charts[i].z_order[1]
                  ELSE /\ TypeOf(i) \in {"barchart", "histogram"} => z = 1
                       /\ TypeOf(i) \in {"linechart", "scatterchart"} => z = 2
        /\ \A k, m \in 1..Len(OnCanvas) :
              LET i == OnCanvas[k].chart
                  j == OnCanvas[m].chart
              IN  (/\ "z_order" \notin DOMAIN arg_charts[i]
                   /\ "z_order" \notin DOMAIN arg_charts[j]
                   /\ TypeOf(i) \in {"barchart", "histogram"}
                   /\ TypeOf(j) \in {"linechart", "scatterchart"})
                  => OnCanvas[k].artist.zorder < OnCanvas[m].artist.zorder

\* A histogram without z_order and a scatter chart bound with z_order 0
\* have been drawn: the scatter chart lies below the histogram.
C23_Witness ==
    /\ Returned
    /\ \E k, m \in 1..Len(OnCanvas) :
          /\ TypeOf(OnCanvas[k].chart) = "histogram"
          /\ "z_order" \notin DOMAIN arg_charts[OnCanvas[k].chart]
          /\ TypeOf(OnCanvas[m].chart) = "scatterchart"
          /\ "z_order" \in DOMAIN arg_charts[OnCanvas[m].chart]
          /\ OnCanvas[m].artist.zorder = 0
          /\ OnCanvas[k].artist.zorder = 1

----------------------------------------------------------------------------
(* Properties of _get_data_range, checked under SpecRange *)

\* The values held by all series of the figure the range was taken of.
AllValues ==
    UNION {{fig[1].meta.charts[k].y[j] : j \in 1..Len(fig[1].meta.charts[k].y)} :
           k \in 1..Len(fig[1].meta.charts)}

----------------------------------------------------------------------------
(* Properties of repeated axis assignment, checked under SpecRepeat *)

----------------------------------------------------------------------------
(* Properties of concurrent _plot_chart_on_axis calls, checked under SpecConc *)

AllDone == \A t \in Threads : callers[t].pc = "done"

\* No call is between its save and its restore.
Quiescent == \A t \in Threads : callers[t].pc \in {"save_config", "done"}

Finished == {t \in Threads : callers[t].pc = "done"}

\* C10: save -> swap -> render -> restore is not safe against concurrent
\* callers.  While no call is running, the global configuration is the one
\* before the calls unless a finished call saved something else, which it can
\* only have read while another call's snapshot was swapped in; once all
\* calls have finished the configuration is the saved value of one of them,
\* so a call that saved a swapped-in snapshot can leave it behind (a lost
\* restore).
C10_RestoresWhatWasSaved ==
    Quiescent =>
        /\ (\A t \in Finished : callers[t].original_config[1] = before[1].cfg)
              => cfg = before[1].cfg
        /\ (\A t \in Finished : callers[t].original_theme = before[1].theme)
              => theme = before[1].theme
        /\ AllDone =>
              /\ \E t \in Threads : cfg = callers[t].original_config[1]
              /\ \E t \in Threads : theme = callers[t].original_theme

\* The lost restore: two calls that each carry a snapshot have finished and
\* the global configuration is not the one before either call started.
C10_Witness ==
    /\ AllDone
    /\ HasSnapshot(1)
    /\ HasSnapshot(2)
    /\ cfg # before[1].cfg

====
